---- MODULE Spec2Model ----
(***************************************************************************)
(* State machine of the FitGenius client engine: the completion tracker    *)
(* and the state owner of src/App.tsx, and the plan view handlers of       *)
(* src/components/PlanDisplay.tsx (completion modal, drag-and-drop move,   *)
(* exercise swap).                                                         *)
(*                                                                         *)
(* Conventions.  A nullable value is a sequence of length <= 1: Null is    *)
(* <<>> and Some(x) is <<x>>.  Identifiers are the strings the code builds *)
(* (`w${w}-d${d}`, `${dayId}-ex${e}`), kept as sequences of characters so  *)
(* that split / replace / parseInt are computed as the code computes them. *)
(* Array indices are 0-based as in the code; At0 reads a 0-based index.    *)
(***************************************************************************)
EXTENDS Integers, Sequences, FiniteSets, Bags, TLC

\* ------------------------------------------------------------------ bounds
MaxLogs == 2
MaxProgress == 1
MaxPending == 1
MaxWeekIdx == 1
MaxDayIdx == 1
MaxExIdx == 2
MaxCandidates == 2
MaxLedger == 3
MaxActivityLogs == 3
MaxSwapsInFlight == 2

\* ------------------------------------------------------------ nullable values
Null == <<>>
Some(x) == <<x>>
IsNull(o) == o = <<>>
Val(o) == o[1]

\* ------------------------------------------------------------ string helpers
Digits == <<"0", "1", "2", "3", "4", "5", "6", "7", "8", "9">>

IsDigit(c) == \E i \in 1..10 : Digits[i] = c

DigitVal(c) == (CHOOSE i \in 1..10 : Digits[i] = c) - 1

NaN == -1

\* template-literal rendering of a small non-negative index
RECURSIVE IntToStr(_)
IntToStr(n) ==
  IF n < 10 THEN <<Digits[n + 1]>>
  ELSE IntToStr(n \div 10) \o <<Digits[(n % 10) + 1]>>

\* parseInt: the longest prefix of decimal digits, NaN when there is none
RECURSIVE ParseDigits(_, _, _)
ParseDigits(s, i, acc) ==
  IF i > Len(s) \/ ~IsDigit(s[i]) THEN acc
  ELSE ParseDigits(s, i + 1, acc * 10 + DigitVal(s[i]))

ParseInt(s) ==
  IF Len(s) = 0 \/ ~IsDigit(s[1]) THEN NaN ELSE ParseDigits(s, 1, 0)

StartsWithAt(s, i, sep) ==
  /\ i + Len(sep) - 1 <= Len(s)
  /\ \A k \in 1..Len(sep) : s[i + k - 1] = sep[k]

\* String.prototype.split(sep) for a non-empty separator
RECURSIVE SplitFrom(_, _, _, _)
SplitFrom(s, sep, i, cur) ==
  IF i > Len(s) THEN <<cur>>
  ELSE IF StartsWithAt(s, i, sep)
       THEN <<cur>> \o SplitFrom(s, sep, i + Len(sep), <<>>)
       ELSE SplitFrom(s, sep, i + 1, Append(cur, s[i]))

Split(s, sep) == SplitFrom(s, sep, 1, <<>>)

\* String.prototype.replace(c, '') with a one-character pattern: the first
\* occurrence only
RECURSIVE RemoveFirst(_, _)
RemoveFirst(s, c) ==
  IF s = <<>> THEN <<>>
  ELSE IF Head(s) = c THEN Tail(s)
       ELSE <<Head(s)>> \o RemoveFirst(Tail(s), c)

\* String.prototype.toLowerCase over the ASCII letters
Uppers == <<"A", "B", "C", "D", "E", "F", "G", "H", "I", "J", "K", "L", "M",
            "N", "O", "P", "Q", "R", "S", "T", "U", "V", "W", "X", "Y", "Z">>
Lowers == <<"a", "b", "c", "d", "e", "f", "g", "h", "i", "j", "k", "l", "m",
            "n", "o", "p", "q", "r", "s", "t", "u", "v", "w", "x", "y", "z">>
IsUpper(c) == \E i \in 1..26 : Uppers[i] = c
IsLower(c) == \E i \in 1..26 : Lowers[i] = c
LowerOf(c) == IF IsUpper(c) THEN Lowers[CHOOSE i \in 1..26 : Uppers[i] = c]
              ELSE c
ToLowerCase(s) == [i \in 1..Len(s) |-> LowerOf(s[i])]

\* the regular-expression classes \s and \w, and \b after position k
IsSpace(c) == c \in {" ", "\t", "\n"}
IsWordChar(c) == IsDigit(c) \/ IsLower(c) \/ IsUpper(c) \/ c = "_"
WordBoundaryAfter(s, k) ==
  IsWordChar(s[k]) # (k < Len(s) /\ IsWordChar(s[k + 1]))

\* (?:min|m\b) at position k
MinuteUnitAt(s, k) ==
  \/ StartsWithAt(s, k, <<"m", "i", "n">>)
  \/ StartsWithAt(s, k, <<"m">>) /\ WordBoundaryAfter(s, k)

\* the ends j (exclusive) of a match of (\d+) from i that \s*(?:min|m\b)
\* can follow
MinMatchEnds(s, i) ==
  {j \in (i + 1)..(Len(s) + 1) :
     /\ \A x \in i..(j - 1) : IsDigit(s[x])
     /\ \E k \in j..Len(s) :
          /\ \A x \in j..(k - 1) : IsSpace(s[x])
          /\ MinuteUnitAt(s, k)}

Min(S) == CHOOSE x \in S : \A y \in S : x <= y
Max(S) == CHOOSE x \in S : \A y \in S : x >= y

\* lowerStr.match(/(\d+)\s*(?:min|m\b)/): group 1 of the leftmost match,
\* the digits taken greedily; Null when there is no match
MinMatch(s) ==
  LET starts == {i \in 1..Len(s) : MinMatchEnds(s, i) # {}}
  IN IF starts = {} THEN Null
     ELSE LET i == Min(starts)
          IN Some(SubSeq(s, i, Max(MinMatchEnds(s, i)) - 1))

\* lowerStr.match(/(\d+)/): the leftmost run of digits, Null when none
DigitsMatch(s) ==
  LET starts == {i \in 1..Len(s) : IsDigit(s[i])}
  IN IF starts = {} THEN Null
     ELSE LET i == Min(starts)
              ends == {j \in (i + 1)..(Len(s) + 1) :
                         \A x \in i..(j - 1) : IsDigit(s[x])}
          IN Some(SubSeq(s, i, Max(ends) - 1))

\* mutant: minutes are taken as seconds
ParseRestTime_MinutesAsSeconds(restStr) ==
  IF restStr = <<>> THEN 60
  ELSE LET lowerStr == ToLowerCase(restStr)
       IN IF ~IsNull(DigitsMatch(lowerStr))
          THEN ParseInt(Val(DigitsMatch(lowerStr)))
          ELSE 60

\* parseRestTime
ParseRestTime(restStr) ==
  IF restStr = <<>> THEN 60
  ELSE LET lowerStr == ToLowerCase(restStr)
           minMatch == MinMatch(lowerStr)
           match == DigitsMatch(lowerStr)
       IN IF ~IsNull(minMatch) THEN ParseInt(Val(minMatch)) * 60
          ELSE IF ~IsNull(match) THEN ParseInt(Val(match))
               ELSE 60

\* ------------------------------------------------------------ array helpers
At0(arr, i) == arr[i + 1]
InRange0(arr, i) == i >= 0 /\ i < Len(arr)
Range(s) == {s[i] : i \in 1..Len(s)}
Includes(arr, x) == \E i \in 1..Len(arr) : arr[i] = x

\* mutant: duplicates are kept
Dedupe_KeepsDuplicates(arr) == arr

\* Array.from(new Set(arr)): first occurrences, in order
RECURSIVE Dedupe(_)
Dedupe(arr) ==
  IF arr = <<>> THEN <<>>
  ELSE LET init == Dedupe(SubSeq(arr, 1, Len(arr) - 1))
           x == arr[Len(arr)]
       IN IF Includes(init, x) THEN init ELSE Append(init, x)

\* ------------------------------------------------------------- identifiers
DayKey(w, d) == <<"w">> \o IntToStr(w) \o <<"-", "d">> \o IntToStr(d)
ExerciseIdOf(dayId, e) == dayId \o <<"-", "e", "x">> \o IntToStr(e)

\* dayId.split('-'), then parseInt(wStr.replace('w','')) and the same for d
DayWeekIdx(dayId) == ParseInt(RemoveFirst(Split(dayId, <<"-">>)[1], "w"))
DayDayIdx(dayId) ==
  LET parts == Split(dayId, <<"-">>)
  IN IF Len(parts) < 2 THEN NaN ELSE ParseInt(RemoveFirst(parts[2], "d"))

\* exerciseId.split('-ex')[0]
OwningDayId(exerciseId) == Split(exerciseId, <<"-", "e", "x">>)[1]

\* ------------------------------------------------------------------- plans
Day(focus, exercises) == [focus |-> focus, exercises |-> exercises]

\* day.focus.toLowerCase().includes('rest'), over the focus texts in use
RestFocusTexts == {"Rest", "Active Rest"}
FocusDenotesRest(focus) == focus \in RestFocusTexts

\* isRestDay of the schedule view
IsRestDay(day) == Len(day.exercises) = 0 \/ FocusDenotesRest(day.focus)

\* ex.rest of the exercises in use
Rest(ex) ==
  CASE ex = "A" -> <<"9", "0", "s">>
    [] ex = "B" -> <<"2", " ", "m", "i", "n">>
    [] ex = "C" -> <<>>
    [] ex = "D" -> <<"a", "b", "c">>
    [] ex = "E" -> <<"1", "m", "3", "0", "s">>
    [] ex = "F" -> <<"1", ".", "5", " ", "M", "i", "n">>
    [] ex = "G" -> <<"3", "m">>
    [] ex = "H" -> <<"0", "0", ":", "3", "0">>
    [] OTHER -> <<"4", "5", " ", "S", "e", "c">>

PlanA ==
  [weeks |-> << <<Day("Push", <<"A", "B", "C">>), Day("Rest", <<>>)>>,
                <<Day("Legs", <<"D">>)>> >>]

GeneratedPlans == {PlanA}

\* a plan with two workout days in one week
PlanC ==
  [weeks |-> << <<Day("Push", <<"A", "B">>), Day("Pull", <<"C", "D">>)>>,
                <<Day("Legs", <<"E">>)>> >>]

\* a second generated plan, for the rest timer
PlanB == [weeks |-> << <<Day("Pull", <<"E", "F", "G">>)>> >>]

\* a plan with a rest text whose first digits are zero
PlanD == [weeks |-> << <<Day("Core", <<"H", "A", "B">>)>> >>]

\* a plan whose rest-focus day lists exercises
PlanE ==
  [weeks |-> << <<Day("Push", <<"A", "B">>), Day("Active Rest", <<"C">>)>> >>]

\* plan.weeks[wIdx]?.schedule[dIdx], Null when undefined
DayPlanOf(p, wIdx, dIdx) ==
  IF IsNull(p) THEN Null
  ELSE LET weeks == Val(p).weeks
       IN IF ~InRange0(weeks, wIdx) THEN Null
          ELSE IF ~InRange0(At0(weeks, wIdx), dIdx) THEN Null
               ELSE Some(At0(At0(weeks, wIdx), dIdx))

\* dayPlan.exercises.map((_, exIdx) => `${dayId}-ex${exIdx}`)
ExerciseIdsOfDay(dayPlan, dayId) ==
  [i \in 1..Len(dayPlan.exercises) |-> ExerciseIdOf(dayId, i - 1)]

\* ------------------------------------------------------------------ inputs
Profiles == {"p1"}
LogWeights == {70}
Date0105 == <<"2", "0", "2", "4", "-", "0", "1", "-", "0", "5">>
Date0107 == <<"2", "0", "2", "4", "-", "0", "1", "-", "0", "7">>
Date0110 == <<"2", "0", "2", "4", "-", "0", "1", "-", "1", "0">>
Clock == {Date0107}
\* the weight form of the progress tracker: the weight text and the date
WeightForms ==
  {[weight |-> <<"8", "0">>, date |-> Date0110],
   [weight |-> <<"8", "2">>, date |-> Date0105],
   [weight |-> <<"7", "0">>, date |-> Date0110],
   [weight |-> <<"0">>, date |-> Date0105],
   [weight |-> <<>>, date |-> Date0105]}
\* generateExerciseVisualization answers with an image url or with nothing
VisualAnswers == {TRUE, FALSE}
\* the activity form of the progress tracker
ActivityForms ==
  {[activityType |-> "Run", activityDuration |-> "30 min", date |-> Date0105],
   [activityType |-> "Swim", activityDuration |-> "45 min", date |-> Date0110],
   [activityType |-> "", activityDuration |-> "10 min", date |-> Date0110]}
SwapAnswers == {<<"X">>}

\* ------------------------------------------------------------------- state
VARIABLES
  profile,            \* App: UserProfile | null
  plan,               \* App: WorkoutCurriculum | null
  completedDays,      \* App: string[]
  completedExercises, \* App: string[]
  progressHistory,    \* App: ProgressEntry[]
  workoutLogs,        \* App: WorkoutLog[]
  loading,            \* App: boolean
  error,              \* App: string | null
  showOnboarding,     \* App: boolean
  genPending,         \* the generateWorkoutPlan call in flight, if any: its
                      \* argument and the state handleGenerate was called in
  activeWeek,         \* PlanDisplay: number
  showCompletionModal,\* PlanDisplay: boolean
  completingDayId,    \* PlanDisplay: string | null
  draggedItem,        \* PlanDisplay: {weekIdx, dayIdx, exIdx} | null
  isSwapping,         \* PlanDisplay: boolean
  swapCandidates,     \* PlanDisplay: Exercise[]
  targetSwapIndex,    \* PlanDisplay: {w, d, e} | null
  pendingSwaps,       \* the getExerciseAlternatives calls in flight: the bag
                      \* of the exercise names they were made for
  timer,              \* PlanDisplay: {isActive, remaining, total, label} | null
  interval,           \* the `interval` of the last run of the timer effect
  tickSources,        \* the intervals set and not cleared
  visuals,            \* PlanDisplay: the exercise names with a cached visual
  loadingVisuals,     \* PlanDisplay: the names with a visual request in flight
  storage,            \* localStorage: [mode, items]
  mounted,            \* App has been constructed
  uncaught,           \* the exceptions no handler caught: [key, during]
  updateQueue,        \* the state updates a handler queued for the next
                      \* render
  last                \* the last handler that ran, its argument, its return
                      \* value and the state it started from

appVars == <<profile, plan, completedDays, completedExercises,
             progressHistory, workoutLogs, loading, error, showOnboarding,
             genPending>>
viewVars == <<activeWeek, showCompletionModal, completingDayId, draggedItem,
              isSwapping, swapCandidates, targetSwapIndex, pendingSwaps>>
timerVars == <<timer, interval, tickSources>>
visualVars == <<visuals, loadingVisuals>>
storeVars == <<storage, mounted, uncaught, updateQueue>>
vars == <<appVars, viewVars, timerVars, visualVars, storeVars, last>>

\* the state a handler starts from, as recorded in last.pre
Snapshot ==
  [plan |-> plan,
   completedDays |-> completedDays,
   completedExercises |-> completedExercises,
   progressHistory |-> progressHistory,
   workoutLogs |-> workoutLogs,
   profile |-> profile,
   draggedItem |-> draggedItem,
   targetSwapIndex |-> targetSwapIndex,
   swapCandidates |-> swapCandidates,
   timer |-> timer,
   tickSources |-> tickSources,
   visuals |-> visuals,
   storage |-> storage,
   uncaught |-> uncaught,
   genPending |-> genPending,
   pendingSwaps |-> pendingSwaps]

\* last = [op, arg (an id, or <<>>), ret (handler result), pre (Snapshot),
\*         held (the plan object the handler was given, as it is afterwards)]
Ran(op, arg, ret, held) ==
  [op |-> op, arg |-> arg, ret |-> ret, pre |-> Snapshot, held |-> held]

\* ---------------------------------------------- App.tsx: completion tracker
\* mutant: un-completing a day leaves it in the list
ToggleDayCompletedDays_KeepsDay(prev, dayId, isNowComplete) ==
  IF isNowComplete THEN Append(prev, dayId) ELSE prev

\* setCompletedDays updater of handleToggleDayComplete
ToggleDayCompletedDays(prev, dayId, isNowComplete) ==
  IF isNowComplete THEN Append(prev, dayId)
  ELSE SelectSeq(prev, LAMBDA id : id # dayId)

\* mutant: un-completing a day clears every completed exercise
CascadeExercises_ClearsAll(prev, exerciseIds, isNowComplete) ==
  IF isNowComplete THEN Dedupe(prev \o exerciseIds) ELSE <<>>

\* mutant: completing a day adds only its first exercise
CascadeExercises_FirstOnly(prev, exerciseIds, isNowComplete) ==
  IF isNowComplete THEN Dedupe(prev \o SubSeq(exerciseIds, 1, 1))
  ELSE SelectSeq(prev, LAMBDA id : ~Includes(exerciseIds, id))

\* setCompletedExercises updater of handleToggleDayComplete
CascadeExercises(prev, exerciseIds, isNowComplete) ==
  IF isNowComplete THEN Dedupe(prev \o exerciseIds)
  ELSE SelectSeq(prev, LAMBDA id : ~Includes(exerciseIds, id))

\* handleToggleDayComplete: the new (completedDays, completedExercises)
HandleToggleDayComplete(cd, ce, p, dayId) ==
  LET isNowComplete == ~Includes(cd, dayId)
      dayPlan == DayPlanOf(p, DayWeekIdx(dayId), DayDayIdx(dayId))
  IN [completedDays |-> ToggleDayCompletedDays(cd, dayId, isNowComplete),
      completedExercises |->
        IF IsNull(dayPlan) THEN ce
        ELSE CascadeExercises(ce, ExerciseIdsOfDay(Val(dayPlan), dayId),
                              isNowComplete)]

\* mutant: a completed exercise is stored first instead of last
ToggleExerciseCompletedExercises_Prepends(prev, exerciseId, isNowComplete) ==
  IF isNowComplete THEN <<exerciseId>> \o prev
  ELSE SelectSeq(prev, LAMBDA id : id # exerciseId)

\* mutant: un-completing an exercise leaves it in the list
ToggleExerciseCompletedExercises_NeverRemoves(prev, exerciseId, isNowComplete) ==
  IF isNowComplete THEN Append(prev, exerciseId) ELSE prev

\* setCompletedExercises updater of handleToggleExerciseComplete
ToggleExerciseCompletedExercises(prev, exerciseId, isNowComplete) ==
  IF isNowComplete THEN Append(prev, exerciseId)
  ELSE SelectSeq(prev, LAMBDA id : id # exerciseId)

\* mutant: the signal does not look at completedDays
ToggleExerciseSignal_IgnoresCompletedDays(cd, ce, p, exerciseId) ==
  LET isNowComplete == ~Includes(ce, exerciseId)
      dayId == OwningDayId(exerciseId)
      dayPlan == DayPlanOf(p, DayWeekIdx(dayId), DayDayIdx(dayId))
  IN IF ~IsNull(p) /\ isNowComplete /\ ~IsNull(dayPlan)
     THEN LET allDayExerciseIds == ExerciseIdsOfDay(Val(dayPlan), dayId)
          IN IF \A i \in 1..Len(allDayExerciseIds) :
                  \/ allDayExerciseIds[i] = exerciseId
                  \/ Includes(ce, allDayExerciseIds[i])
             THEN Some(dayId) ELSE Null
     ELSE Null

\* return value of handleToggleExerciseComplete: dayId or null
ToggleExerciseSignal(cd, ce, p, exerciseId) ==
  LET isNowComplete == ~Includes(ce, exerciseId)
      dayId == OwningDayId(exerciseId)
      dayPlan == DayPlanOf(p, DayWeekIdx(dayId), DayDayIdx(dayId))
  IN IF ~IsNull(p) /\ isNowComplete /\ ~IsNull(dayPlan)
     THEN LET allDayExerciseIds == ExerciseIdsOfDay(Val(dayPlan), dayId)
              willBeFullyComplete ==
                \A i \in 1..Len(allDayExerciseIds) :
                  \/ allDayExerciseIds[i] = exerciseId
                  \/ Includes(ce, allDayExerciseIds[i])
          IN IF willBeFullyComplete /\ ~Includes(cd, dayId)
             THEN Some(dayId) ELSE Null
     ELSE Null

\* handleToggleExerciseComplete: the new completedExercises and the result
HandleToggleExerciseComplete(cd, ce, p, exerciseId) ==
  [completedExercises |->
     ToggleExerciseCompletedExercises(ce, exerciseId,
                                      ~Includes(ce, exerciseId)),
   ret |-> ToggleExerciseSignal(cd, ce, p, exerciseId)]

\* ------------------------------------------------- App.tsx: ledger and logs
ProgressEntry(date, weight) == [date |-> date, weight |-> weight]

\* new Date(date).getTime() of a YYYY-MM-DD date, in days since 1970-01-01
\* (the time in milliseconds is 86 400 000 times this)
GetTime(date) ==
  LET parts == Split(date, <<"-">>)
      year == ParseInt(parts[1])
      month == ParseInt(parts[2])
      day == ParseInt(parts[3])
      y == IF month <= 2 THEN year - 1 ELSE year
      era == y \div 400
      yoe == y - era * 400
      doy == (153 * ((month + 9) % 12) + 2) \div 5 + day - 1
      doe == yoe * 365 + yoe \div 4 - yoe \div 100 + doy
  IN era * 146097 + doe - 719468

\* the sort comparator of handleAddProgress
CompareByDate(a, b) == GetTime(a.date) - GetTime(b.date)

\* mutant: an entry goes before the entries of its date
RECURSIVE InsertByDate_BeforeEquals(_, _)
InsertByDate_BeforeEquals(sorted, entry) ==
  IF sorted = <<>> THEN <<entry>>
  ELSE IF CompareByDate(sorted[Len(sorted)], entry) < 0
       THEN Append(sorted, entry)
       ELSE Append(InsertByDate_BeforeEquals(
                     SubSeq(sorted, 1, Len(sorted) - 1), entry),
                   sorted[Len(sorted)])

\* Array.prototype.sort with the comparator: a stable sort, here by insertion
RECURSIVE InsertByDate(_, _)
InsertByDate(sorted, entry) ==
  IF sorted = <<>> THEN <<entry>>
  ELSE IF CompareByDate(sorted[Len(sorted)], entry) <= 0
       THEN Append(sorted, entry)
       ELSE Append(InsertByDate(SubSeq(sorted, 1, Len(sorted) - 1), entry),
                   sorted[Len(sorted)])

RECURSIVE SortByDate(_)
SortByDate(arr) ==
  IF arr = <<>> THEN <<>>
  ELSE InsertByDate(SortByDate(SubSeq(arr, 1, Len(arr) - 1)), arr[Len(arr)])

\* setProgressHistory updater of handleAddProgress
HandleAddProgress(prev, entry) == SortByDate(Append(prev, entry))

\* mutant: the log goes to the end
HandleLogWorkout_Appends(prev, log) == Append(prev, log)

\* setWorkoutLogs updater of handleLogWorkout
HandleLogWorkout(prev, log) == <<log>> \o prev

\* the WorkoutLog handleActivitySubmit builds
ActivityLog(form) ==
  [dayId |-> Null, dayName |-> form.activityType, focus |-> "Custom Activity",
   date |-> form.date, duration |-> form.activityDuration]

\* mutant: the log of a plan day carries no dayId
DayLog_NoDayId(dayId, dayData) == [dayId |-> Null, focus |-> dayData.focus]

\* the WorkoutLog confirmCompletion builds for a plan day
DayLog(dayId, dayData) ==
  [dayId |-> Some(dayId), focus |-> dayData.focus]

\* --------------------------------------------- localStorage and JSON text
PROFILE == "fitgenius_profile"
PLAN == "fitgenius_plan"
COMPLETED == "fitgenius_completed"
COMPLETED_EXERCISES == "fitgenius_completed_exercises"
PROGRESS == "fitgenius_progress"
WORKOUT_LOGS == "fitgenius_workout_logs"
VISUALS_STORAGE_KEY == "fitgenius_visuals"

\* the keys of the App effects, in the order the effects are declared
AppKeys == <<PROFILE, PLAN, COMPLETED, COMPLETED_EXERCISES, PROGRESS,
             WORKOUT_LOGS>>
AllKeys == Range(AppKeys) \cup {VISUALS_STORAGE_KEY}

\* a stored text: the JSON text of a value, a text JSON.parse rejects, or the
\* empty string
JsonStringify(v) == [kind |-> "json", value |-> <<v>>]
CorruptText == [kind |-> "corrupt", value |-> <<>>]
EmptyText == [kind |-> "empty", value |-> <<>>]

\* JSON.parse
JsonParse(text) ==
  IF text.kind = "json" THEN [threw |-> FALSE, value |-> text.value[1]]
  ELSE [threw |-> TRUE, value |-> <<>>]

\* the store: "ok", "full" (a write that changes a stored text throws
\* QuotaExceededError) or "unavailable" (every access throws)
StorageModes == {"ok", "full", "unavailable"}
EmptyItems == [k \in AllKeys |-> Null]

GetItem(store, key) ==
  [threw |-> store.mode = "unavailable", value |-> store.items[key]]

SetItem(store, key, text) ==
  IF \/ store.mode = "unavailable"
     \/ store.mode = "full" /\ store.items[key] # Some(text)
  THEN [threw |-> TRUE, store |-> store]
  ELSE [threw |-> FALSE, store |-> [store EXCEPT !.items[key] = Some(text)]]

RemoveItem(store, key) ==
  IF store.mode = "unavailable" THEN [threw |-> TRUE, store |-> store]
  ELSE [threw |-> FALSE, store |-> [store EXCEPT !.items[key] = Null]]

\* the body of the try of a useState initializer:
\* saved = localStorage.getItem(key); saved ? JSON.parse(saved) : default
TryLoad(store, key, default) ==
  LET got == GetItem(store, key)
  IN IF got.threw THEN [threw |-> TRUE, value |-> default]
     ELSE IF IsNull(got.value) \/ Val(got.value).kind = "empty"
     THEN [threw |-> FALSE, value |-> default]
     ELSE LET parsed == JsonParse(Val(got.value))
          IN IF parsed.threw THEN [threw |-> TRUE, value |-> default]
             ELSE [threw |-> FALSE, value |-> parsed.value]

\* mutant: the initializer has no catch
Load_NoCatch(store, key, default) ==
  [value |-> TryLoad(store, key, default).value,
   raised |-> TryLoad(store, key, default).threw]

\* a useState initializer: try { ... } catch (e) { return default }
Load(store, key, default) ==
  [value |-> TryLoad(store, key, default).value, raised |-> FALSE]

\* the values the effects persist, by key
Persisted(pf, pl, cd, ce, ph, wl, vs) ==
  [k \in AllKeys |->
     CASE k = PROFILE -> pf
       [] k = PLAN -> pl
       [] k = COMPLETED -> cd
       [] k = COMPLETED_EXERCISES -> ce
       [] k = PROGRESS -> ph
       [] k = WORKOUT_LOGS -> wl
       [] k = VISUALS_STORAGE_KEY -> vs]

\* mutant: the effect of a null profile or plan writes nothing
AppEffect_KeepsWhenNull(store, key, value) ==
  IF key \in {PROFILE, PLAN} /\ IsNull(value)
  THEN [threw |-> FALSE, store |-> store]
  ELSE SetItem(store, key, JsonStringify(value))

\* the body of the App effect of a key: profile and plan are removed when
\* null, every other value is written
AppEffect(store, key, value) ==
  IF key \in {PROFILE, PLAN} /\ IsNull(value) THEN RemoveItem(store, key)
  ELSE SetItem(store, key, JsonStringify(value))

\* the visuals effect of PlanDisplay: try { setItem } catch { console.warn }
VisualsEffect(store, value) ==
  [threw |-> FALSE,
   store |-> SetItem(store, VISUALS_STORAGE_KEY, JsonStringify(value)).store]

\* the effects of the keys whose state was set in a commit, in declaration
\* order from the i-th App effect on; raised collects the keys whose effect
\* threw
RECURSIVE RunAppEffects(_, _, _, _)
RunAppEffects(store, keys, values, i) ==
  IF i > Len(AppKeys) THEN [store |-> store, raised |-> {}]
  ELSE IF AppKeys[i] \notin keys THEN RunAppEffects(store, keys, values, i + 1)
  ELSE LET r == AppEffect(store, AppKeys[i], values[AppKeys[i]])
           rest == RunAppEffects(r.store, keys, values, i + 1)
       IN [store |-> rest.store,
           raised |-> rest.raised
                        \cup (IF r.threw THEN {AppKeys[i]} ELSE {})]

\* the effects of the child (PlanDisplay) run before those of App
RunEffects(store, keys, values) ==
  IF VISUALS_STORAGE_KEY \in keys
  THEN LET v == VisualsEffect(store, values[VISUALS_STORAGE_KEY])
           rest == RunAppEffects(v.store, keys, values, 1)
       IN [store |-> rest.store,
           raised |-> rest.raised
                        \cup (IF v.threw THEN {VISUALS_STORAGE_KEY} ELSE {})]
  ELSE RunAppEffects(store, keys, values, 1)

Raised(keys, during) == {[key |-> k, during |-> during] : k \in keys}

\* the end of a commit: the effects of the keys whose state was set run on
\* the new state; loadsRaised are the keys whose initializer threw in it.
\* An exception out of an effect or an initializer is caught by nothing:
\* React unmounts the tree, and no handler is enabled afterwards.
PersistAfterLoad(keys, loadsRaised) ==
  LET r == RunEffects(storage, keys,
                      Persisted(profile', plan', completedDays',
                                completedExercises', progressHistory',
                                workoutLogs', visuals'))
  IN /\ storage' = r.store
     /\ uncaught' = uncaught \cup Raised(r.raised, "save")
                              \cup Raised(loadsRaised, "load")

Persist(keys) ==
  PersistAfterLoad(keys, {}) /\ UNCHANGED <<mounted, updateQueue>>

\* the application is mounted, nothing has torn it down and no handler is
\* running: React renders the updates of a handler before the next event
Live == mounted /\ uncaught = {} /\ updateQueue = <<>>

\* ------------------------------------------- PlanDisplay.tsx: rest timer
Timer(isActive, remaining, total, label) ==
  [isActive |-> isActive, remaining |-> remaining, total |-> total,
   label |-> label]

\* window.setInterval: a handle whose id none of `used` (the intervals live
\* or just cleared) has; `of` is the timer value in the closure of the effect
\* run that set it
SetInterval(used, t) ==
  [id |-> Min({n \in 0..Cardinality(used) : \A h \in used : h.id # n}),
   of |-> t]

\* mutant: the cleanup clears nothing
ClearInterval_Noop(sources, handle) == sources

\* clearInterval(interval); clearInterval(undefined) does nothing
ClearInterval(sources, handle) ==
  IF IsNull(handle) THEN sources ELSE sources \ {Val(handle)}

\* mutant: a commit to the idle state leaves the interval as it is
TimerEffect_KeepsWhenIdle(prevInterval, sources, t) ==
  IF IsNull(t) THEN [interval |-> prevInterval, tickSources |-> sources]
  ELSE LET cleared == ClearInterval(sources, prevInterval)
       IN IF Val(t).isActive /\ Val(t).remaining > 0
          THEN LET h == SetInterval(sources, Val(t))
               IN [interval |-> Some(h), tickSources |-> cleared \cup {h}]
          ELSE [interval |-> Null, tickSources |-> cleared]

\* the timer effect after a commit that changed `timer`: the cleanup of the
\* previous run, then the body
TimerEffect(prevInterval, sources, t) ==
  LET cleared == ClearInterval(sources, prevInterval)
  IN IF ~IsNull(t) /\ Val(t).isActive /\ Val(t).remaining > 0
     THEN LET h == SetInterval(sources, Val(t))
          IN [interval |-> Some(h), tickSources |-> cleared \cup {h}]
     ELSE [interval |-> Null, tickSources |-> cleared]

\* mutant: the countdown stops at 1 and stays active
TimerTickUpdate_NeverExpires(prev) ==
  IF IsNull(prev) THEN Null
  ELSE IF Val(prev).remaining <= 1 THEN prev
       ELSE Some([Val(prev) EXCEPT !.remaining = @ - 1])

\* the setTimer updater of the interval callback
TimerTickUpdate(prev) ==
  IF IsNull(prev) THEN Null
  ELSE IF Val(prev).remaining <= 1
       THEN Some([Val(prev) EXCEPT !.isActive = FALSE, !.remaining = 0])
       ELSE Some([Val(prev) EXCEPT !.remaining = @ - 1])

\* ---------------------------------------------------------------- initial
\* the store of a first visit once the effects of the mount have run;
\* viewKeys is {VISUALS_STORAGE_KEY} when the plan view is mounted too
MountedStore(viewKeys) ==
  RunEffects([mode |-> "ok", items |-> EmptyItems],
             Range(AppKeys) \cup viewKeys,
             Persisted(profile, plan, completedDays, completedExercises,
                       progressHistory, workoutLogs, visuals)).store

Init ==
  /\ profile = Null
  /\ plan = Null
  /\ completedDays = <<>>
  /\ completedExercises = <<>>
  /\ progressHistory = <<>>
  /\ workoutLogs = <<>>
  /\ loading = FALSE
  /\ error = Null
  /\ showOnboarding = FALSE
  /\ genPending = Null
  /\ activeWeek = 0
  /\ showCompletionModal = FALSE
  /\ completingDayId = Null
  /\ draggedItem = Null
  /\ isSwapping = FALSE
  /\ swapCandidates = <<>>
  /\ targetSwapIndex = Null
  /\ pendingSwaps = EmptyBag
  /\ timer = Null
  /\ interval = Null
  /\ tickSources = {}
  /\ visuals = {}
  /\ loadingVisuals = {}
  /\ storage = MountedStore({})
  /\ mounted = TRUE
  /\ uncaught = {}
  /\ updateQueue = <<>>
  /\ last = [op |-> "init", arg |-> <<>>, ret |-> Null, pre |-> Snapshot,
             held |-> Null]

\* PlanDisplay is mounted while plan is not null; mounting gives its state
\* the useState defaults
ViewDefaults ==
  /\ activeWeek' = 0
  /\ showCompletionModal' = FALSE
  /\ completingDayId' = Null
  /\ draggedItem' = Null
  /\ isSwapping' = FALSE
  /\ swapCandidates' = <<>>
  /\ targetSwapIndex' = Null
  /\ pendingSwaps' = EmptyBag
  /\ timer' = Null
  /\ interval' = Null
  /\ tickSources' = ClearInterval(tickSources, interval)
  /\ loadingVisuals' = {}

\* ------------------------------------------- PlanDisplay.tsx: plan mutator
\* Array.prototype.splice(start, 1): the removed elements and what is left
SpliceOut(arr, start) ==
  IF InRange0(arr, start)
  THEN [removed |-> <<At0(arr, start)>>,
        rest |-> SubSeq(arr, 1, start) \o SubSeq(arr, start + 2, Len(arr))]
  ELSE [removed |-> <<>>, rest |-> arr]

\* Array.prototype.splice(start, 0, item): start is clamped to the length
SpliceIn(arr, start, item) ==
  LET at == IF start > Len(arr) THEN Len(arr) ELSE start
  IN SubSeq(arr, 1, at) \o <<item>> \o SubSeq(arr, at + 1, Len(arr))

\* mutant: the dragged and the target element change places
MoveExercise_Exchanges(dayExercises, fromIdx, toIdx) ==
  [i \in 1..Len(dayExercises) |->
     IF i = toIdx + 1 THEN dayExercises[fromIdx + 1]
     ELSE IF i = fromIdx + 1 THEN dayExercises[toIdx + 1]
          ELSE dayExercises[i]]

\* the two splices of handleDrop on the day's exercise array
MoveExercise(dayExercises, fromIdx, toIdx) ==
  LET out == SpliceOut(dayExercises, fromIdx)
      movedItem == IF out.removed = <<>> THEN "undefined" ELSE out.removed[1]
  IN SpliceIn(out.rest, toIdx, movedItem)

\* newPlan.weeks[w].schedule[d].exercises = exercises, on a plan value
WithExercises(p, w, d, exercises) ==
  [p EXCEPT !.weeks[w + 1][d + 1].exercises = exercises]

\* handleDrop from `const newPlan = JSON.parse(JSON.stringify(plan))` on:
\* newPlan is what onUpdatePlan receives, held is the object the view was
\* given (the plan prop), as it is once the handler has run
DropEdit(p, w, d, fromIdx, toIdx) ==
  [newPlan |-> WithExercises(p, w, d,
                 MoveExercise(At0(At0(p.weeks, w), d).exercises,
                              fromIdx, toIdx)),
   held |-> p]

\* mutant: no copy, the exercise is replaced in the plan object given
SwapEdit_InPlace(p, w, d, e, newExercise) ==
  LET edited == [p EXCEPT !.weeks[w + 1][d + 1].exercises[e + 1] = newExercise]
  IN [newPlan |-> edited, held |-> edited]

\* mutant: the new exercise is inserted before the target instead of
\* replacing it
SwapEdit_Inserts(p, w, d, e, newExercise) ==
  [newPlan |-> WithExercises(p, w, d,
                 SpliceIn(At0(At0(p.weeks, w), d).exercises, e, newExercise)),
   held |-> p]

\* confirmSwap from `const newPlan = JSON.parse(JSON.stringify(plan))` on
SwapEdit(p, w, d, e, newExercise) ==
  [newPlan |-> [p EXCEPT !.weeks[w + 1][d + 1].exercises[e + 1] = newExercise],
   held |-> p]

\* ------------------------------------------------------------ App handlers
\* Landing onStart
HandleStart ==
  /\ Live
  /\ IsNull(plan) /\ ~showOnboarding
  /\ showOnboarding' = TRUE
  /\ last' = Ran("start", <<>>, Null, plan)
  /\ UNCHANGED <<profile, plan, completedDays, completedExercises,
                 progressHistory, workoutLogs, loading, error, genPending>>
  /\ UNCHANGED viewVars
  /\ UNCHANGED timerVars
  /\ UNCHANGED visualVars
  /\ UNCHANGED storeVars

\* handleGenerate up to the await
HandleGenerate(userProfile) ==
  /\ Live
  /\ IsNull(plan) /\ showOnboarding /\ ~loading
  /\ profile' = Some(userProfile)
  /\ loading' = TRUE
  /\ error' = Null
  /\ genPending' = Some([userProfile |-> userProfile, before |-> Snapshot])
  /\ last' = Ran("generate", <<>>, Null, plan)
  /\ UNCHANGED <<plan, completedDays, completedExercises, progressHistory,
                 workoutLogs, showOnboarding>>
  /\ UNCHANGED viewVars
  /\ UNCHANGED timerVars
  /\ UNCHANGED visualVars
  /\ Persist({PROFILE})

\* handleGenerate after generateWorkoutPlan resolved
GenerateResolved(generatedPlan) ==
  /\ Live
  /\ ~IsNull(genPending)
  /\ plan' = Some(generatedPlan)
  /\ completedDays' = <<>>
  /\ completedExercises' = <<>>
  /\ workoutLogs' = <<>>
  /\ loading' = FALSE
  /\ genPending' = Null
  /\ ViewDefaults
  /\ last' = Ran("generateResolved", <<>>, Null, plan)
  /\ UNCHANGED <<profile, progressHistory, error, showOnboarding>>
  /\ visuals' = Load(storage, VISUALS_STORAGE_KEY, {}).value
  /\ PersistAfterLoad({PLAN, COMPLETED, COMPLETED_EXERCISES, WORKOUT_LOGS,
                       VISUALS_STORAGE_KEY},
                      IF Load(storage, VISUALS_STORAGE_KEY, {}).raised
                      THEN {VISUALS_STORAGE_KEY} ELSE {})
  /\ UNCHANGED <<mounted, updateQueue>>

\* handleGenerate after generateWorkoutPlan threw
GenerateRejected ==
  /\ Live
  /\ ~IsNull(genPending)
  /\ error' = Some("Failed to generate plan")
  /\ loading' = FALSE
  /\ genPending' = Null
  /\ last' = Ran("generateRejected", <<>>, Null, plan)
  /\ UNCHANGED <<profile, plan, completedDays, completedExercises,
                 progressHistory, workoutLogs, showOnboarding>>
  /\ UNCHANGED viewVars
  /\ UNCHANGED timerVars
  /\ UNCHANGED visualVars
  /\ UNCHANGED storeVars

\* mutant: a confirmed reset also empties the progress ledger
HandleReset_ClearsLedger(confirmed) ==
  /\ Live
  /\ ~IsNull(plan)
  /\ IF confirmed
     THEN /\ plan' = Null
          /\ completedDays' = <<>>
          /\ completedExercises' = <<>>
          /\ workoutLogs' = <<>>
          /\ progressHistory' = <<>>
          /\ error' = Null
          /\ showOnboarding' = FALSE
          /\ ViewDefaults
          /\ visuals' = {}
     ELSE /\ UNCHANGED <<plan, completedDays, completedExercises,
                         workoutLogs, progressHistory, error, showOnboarding>>
          /\ UNCHANGED <<viewVars, timerVars, visualVars>>
  /\ last' = Ran(IF confirmed THEN "reset" ELSE "resetDeclined",
                 <<>>, Null, plan)
  /\ UNCHANGED <<profile, loading, genPending>>
  /\ Persist(IF confirmed
             THEN {PLAN, COMPLETED, COMPLETED_EXERCISES, WORKOUT_LOGS,
                   PROGRESS}
             ELSE {})

\* handleReset; confirmed is the answer of window.confirm
HandleReset(confirmed) ==
  /\ Live
  /\ ~IsNull(plan)
  /\ IF confirmed
     THEN /\ plan' = Null
          /\ completedDays' = <<>>
          /\ completedExercises' = <<>>
          /\ workoutLogs' = <<>>
          /\ error' = Null
          /\ showOnboarding' = FALSE
          /\ ViewDefaults
          /\ visuals' = {}
     ELSE /\ UNCHANGED <<plan, completedDays, completedExercises,
                         workoutLogs, error, showOnboarding>>
          /\ UNCHANGED <<viewVars, timerVars, visualVars>>
  /\ last' = Ran(IF confirmed THEN "reset" ELSE "resetDeclined",
                 <<>>, Null, plan)
  /\ UNCHANGED <<profile, progressHistory, loading, genPending>>
  /\ Persist(IF confirmed
             THEN {PLAN, COMPLETED, COMPLETED_EXERCISES, WORKOUT_LOGS}
             ELSE {})

\* mutant: a plan update also empties completedExercises
HandleUpdatePlan_ClearsExercises(newPlan) ==
  /\ plan' = Some(newPlan)
  /\ completedExercises' = <<>>
  /\ UNCHANGED <<profile, completedDays, progressHistory, workoutLogs,
                 loading, error, showOnboarding, genPending>>

\* handleUpdatePlan: setPlan(newPlan) and nothing else
HandleUpdatePlan(newPlan) ==
  /\ plan' = Some(newPlan)
  /\ UNCHANGED <<profile, completedDays, completedExercises, progressHistory,
                 workoutLogs, loading, error, showOnboarding, genPending>>

\* ------------------------------------------------------ PlanDisplay handlers
Weeks == Val(plan).weeks
CurrentWeekPlan == At0(Weeks, activeWeek)
HasDay(dayIdx) == InRange0(CurrentWeekPlan, dayIdx)
HasExercise(dayIdx, exIdx) ==
  HasDay(dayIdx) /\ InRange0(At0(CurrentWeekPlan, dayIdx).exercises, exIdx)

\* the filter of totalWorkouts and validWorkoutIds
IsWorkoutDay(day) == Len(day.exercises) > 0 /\ ~FocusDenotesRest(day.focus)

\* totalWorkouts: the workout days of every week, summed
TotalWorkouts(p) ==
  Cardinality({pos \in UNION {{<<w, d>> : d \in 1..Len(p.weeks[w])} :
                               w \in 1..Len(p.weeks)} :
                 IsWorkoutDay(p.weeks[pos[1]][pos[2]])})

\* validWorkoutIds: `w${wIdx}-d${dIdx}` of the workout days, in plan order
RECURSIVE ValidWorkoutIdsFrom(_, _, _)
ValidWorkoutIdsFrom(weeks, wIdx, dIdx) ==
  IF ~InRange0(weeks, wIdx) THEN <<>>
  ELSE IF ~InRange0(At0(weeks, wIdx), dIdx)
       THEN ValidWorkoutIdsFrom(weeks, wIdx + 1, 0)
       ELSE (IF IsWorkoutDay(At0(At0(weeks, wIdx), dIdx))
             THEN <<DayKey(wIdx, dIdx)>> ELSE <<>>)
              \o ValidWorkoutIdsFrom(weeks, wIdx, dIdx + 1)
ValidWorkoutIds(p) == ValidWorkoutIdsFrom(p.weeks, 0, 0)

\* completedCount: the valid workout ids that completedDays includes
CompletedCount(p, cd) ==
  LET ids == ValidWorkoutIds(p)
  IN Cardinality({i \in 1..Len(ids) : Includes(cd, ids[i])})

\* the week tabs
SetActiveWeek(idx) ==
  /\ Live
  /\ ~IsNull(plan)
  /\ InRange0(Weeks, idx)
  /\ activeWeek' = idx
  /\ last' = Ran("setActiveWeek", <<>>, Null, plan)
  /\ UNCHANGED appVars
  /\ UNCHANGED <<showCompletionModal, completingDayId, draggedItem,
                 isSwapping, swapCandidates, targetSwapIndex, pendingSwaps>>
  /\ UNCHANGED timerVars
  /\ UNCHANGED visualVars
  /\ UNCHANGED storeVars

\* handleDayCompleteToggle, from the button of a non-rest day
HandleDayCompleteToggle(dayIdx) ==
  /\ Live
  /\ ~IsNull(plan)
  /\ HasDay(dayIdx)
  /\ ~IsRestDay(At0(CurrentWeekPlan, dayIdx))
  /\ LET dayKey == DayKey(activeWeek, dayIdx)
         isCurrentlyCompleted == Includes(completedDays, dayKey)
         toggled == HandleToggleDayComplete(completedDays, completedExercises,
                                            plan, dayKey)
     IN /\ IF isCurrentlyCompleted
           THEN /\ completedDays' = toggled.completedDays
                /\ completedExercises' = toggled.completedExercises
                /\ UNCHANGED <<showCompletionModal, completingDayId>>
           ELSE /\ completingDayId' = Some(dayKey)
                /\ showCompletionModal' = TRUE
                /\ UNCHANGED <<completedDays, completedExercises>>
        /\ last' = Ran(IF isCurrentlyCompleted THEN "toggleDay"
                       ELSE "openCompletionModal", dayKey, Null, plan)
  /\ UNCHANGED <<profile, plan, progressHistory, workoutLogs, loading, error,
                 showOnboarding, genPending>>
  /\ UNCHANGED <<activeWeek, draggedItem, isSwapping, swapCandidates,
                 targetSwapIndex, pendingSwaps>>
  /\ UNCHANGED timerVars
  /\ UNCHANGED visualVars
  /\ Persist(IF Includes(completedDays, DayKey(activeWeek, dayIdx))
             THEN {COMPLETED, COMPLETED_EXERCISES} ELSE {})

\* handleExerciseToggle
HandleExerciseToggle(dayIdx, exIdx) ==
  /\ Live
  /\ ~IsNull(plan)
  /\ HasExercise(dayIdx, exIdx)
  /\ LET exerciseId == ExerciseIdOf(DayKey(activeWeek, dayIdx), exIdx)
         res == HandleToggleExerciseComplete(completedDays,
                                             completedExercises, plan,
                                             exerciseId)
     IN /\ completedExercises' = res.completedExercises
        /\ IF ~IsNull(res.ret)
           THEN /\ completingDayId' = res.ret
                /\ showCompletionModal' = TRUE
           ELSE UNCHANGED <<showCompletionModal, completingDayId>>
        /\ last' = Ran("toggleExercise", exerciseId, res.ret, plan)
  /\ UNCHANGED <<profile, plan, completedDays, progressHistory, workoutLogs,
                 loading, error, showOnboarding, genPending>>
  /\ UNCHANGED <<activeWeek, draggedItem, isSwapping, swapCandidates,
                 targetSwapIndex, pendingSwaps>>
  /\ UNCHANGED timerVars
  /\ UNCHANGED visualVars
  /\ Persist({COMPLETED_EXERCISES})

\* confirmCompletion; logWeight is the weight field, Null when it is empty,
\* today the day `new Date()` gives
ConfirmCompletion(includeWeight, logWeight, today) ==
  /\ Live
  /\ ~IsNull(plan)
  /\ showCompletionModal
  /\ Len(workoutLogs) < MaxLogs
  /\ LET weightVal == IF includeWeight /\ ~IsNull(logWeight)
                      THEN logWeight ELSE Null
     IN /\ ~IsNull(weightVal) => Len(progressHistory) < MaxProgress
        /\ IF ~IsNull(completingDayId)
           THEN LET dayId == Val(completingDayId)
                    dayData == Val(DayPlanOf(plan, DayWeekIdx(dayId),
                                             DayDayIdx(dayId)))
                    toggled == HandleToggleDayComplete(
                                 completedDays, completedExercises, plan, dayId)
                IN /\ workoutLogs' =
                        HandleLogWorkout(workoutLogs, DayLog(dayId, dayData))
                   /\ completedDays' = toggled.completedDays
                   /\ completedExercises' = toggled.completedExercises
                   /\ progressHistory' =
                        IF ~IsNull(weightVal) /\ Val(weightVal) # 0
                        THEN HandleAddProgress(
                               progressHistory,
                               ProgressEntry(today, Val(weightVal)))
                        ELSE progressHistory
                   /\ showCompletionModal' = FALSE
                   /\ completingDayId' = Null
                   /\ last' = Ran("confirmCompletion", dayId, Null, plan)
           ELSE /\ UNCHANGED <<workoutLogs, completedDays, completedExercises,
                               progressHistory, showCompletionModal,
                               completingDayId>>
                /\ last' = Ran("confirmCompletion", <<>>, Null, plan)
  /\ UNCHANGED <<profile, plan, loading, error, showOnboarding, genPending>>
  /\ UNCHANGED <<activeWeek, draggedItem, isSwapping, swapCandidates,
                 targetSwapIndex, pendingSwaps>>
  /\ UNCHANGED timerVars
  /\ UNCHANGED visualVars
  /\ Persist(IF IsNull(completingDayId) THEN {}
             ELSE {WORKOUT_LOGS, COMPLETED, COMPLETED_EXERCISES}
                    \cup (IF includeWeight /\ ~IsNull(logWeight)
                             /\ Val(logWeight) # 0
                          THEN {PROGRESS} ELSE {}))

\* ------------------------------------- a handler and the render after it
\* A setState call of a handler queues an update; React applies every update
\* a handler queued in the one render that follows it, each updater on the
\* value the updater before it left, and runs the effects after the commit.
Update(hook, arg) == [hook |-> hook, arg |-> arg]

\* the updates handleToggleDayComplete queues; cd and p are completedDays and
\* plan of the render the handler closes over
ToggleDayUpdates(cd, p, dayId) ==
  LET isNowComplete == ~Includes(cd, dayId)
      dayPlan == DayPlanOf(p, DayWeekIdx(dayId), DayDayIdx(dayId))
  IN <<Update("completedDays",
              [dayId |-> dayId, isNowComplete |-> isNowComplete])>>
     \o (IF IsNull(dayPlan) THEN <<>>
         ELSE <<Update("completedExercises",
                       [exerciseIds |->
                          ExerciseIdsOfDay(Val(dayPlan), dayId),
                        isNowComplete |-> isNowComplete])>>)

\* the updates openCompletionModal queues
OpenCompletionModalUpdates(dayId) ==
  <<Update("completingDayId", [value |-> Some(dayId)]),
    Update("showCompletionModal", [value |-> TRUE])>>

\* the state of the hooks the completion handlers set
HookState ==
  [completedDays |-> completedDays,
   completedExercises |-> completedExercises,
   workoutLogs |-> workoutLogs,
   showCompletionModal |-> showCompletionModal,
   completingDayId |-> completingDayId]

\* one queued update applied to the hooks
ApplyUpdate(st, u) ==
  CASE u.hook = "completedDays" ->
         [st EXCEPT !.completedDays =
            ToggleDayCompletedDays(@, u.arg.dayId, u.arg.isNowComplete)]
    [] u.hook = "completedExercises" ->
         [st EXCEPT !.completedExercises =
            CascadeExercises(@, u.arg.exerciseIds, u.arg.isNowComplete)]
    [] u.hook = "workoutLogs" ->
         [st EXCEPT !.workoutLogs = HandleLogWorkout(@, u.arg.log)]
    [] u.hook = "showCompletionModal" ->
         [st EXCEPT !.showCompletionModal = u.arg.value]
    [] u.hook = "completingDayId" ->
         [st EXCEPT !.completingDayId = u.arg.value]

RECURSIVE ApplyUpdates(_, _)
ApplyUpdates(st, queue) ==
  IF Len(queue) = 0 THEN st
  ELSE ApplyUpdates(ApplyUpdate(st, Head(queue)), Tail(queue))

\* mutant: every update is rendered and committed on its own
Batch_OneAtATime(queue) == SubSeq(queue, 1, 1)

\* the updates one render applies: all that the handler queued
Batch(queue) == queue

\* the key of the persistence effect that depends on a hook
HookKeys(hook) ==
  CASE hook = "completedDays" -> {COMPLETED}
    [] hook = "completedExercises" -> {COMPLETED_EXERCISES}
    [] hook = "workoutLogs" -> {WORKOUT_LOGS}
    [] OTHER -> {}

\* handleDayCompleteToggle up to its return: the updates are queued, no
\* state has changed yet
HandleDayCompleteToggleCalled(dayIdx) ==
  /\ Live
  /\ ~IsNull(plan)
  /\ HasDay(dayIdx)
  /\ ~IsRestDay(At0(CurrentWeekPlan, dayIdx))
  /\ LET dayKey == DayKey(activeWeek, dayIdx)
     IN /\ updateQueue' =
             IF Includes(completedDays, dayKey)
             THEN ToggleDayUpdates(completedDays, plan, dayKey)
             ELSE OpenCompletionModalUpdates(dayKey)
        /\ last' = Ran("toggleDayCalled", dayKey, Null, plan)
  /\ UNCHANGED <<appVars, viewVars, timerVars, visualVars>>
  /\ UNCHANGED <<storage, mounted, uncaught>>

\* confirmCompletion up to its return, with the weight field empty
ConfirmCompletionCalled ==
  /\ Live
  /\ ~IsNull(plan)
  /\ showCompletionModal
  /\ ~IsNull(completingDayId)
  /\ Len(workoutLogs) < MaxLogs
  /\ LET dayId == Val(completingDayId)
         dayData == Val(DayPlanOf(plan, DayWeekIdx(dayId), DayDayIdx(dayId)))
     IN /\ updateQueue' =
             <<Update("workoutLogs", [log |-> DayLog(dayId, dayData)])>>
               \o ToggleDayUpdates(completedDays, plan, dayId)
               \o <<Update("showCompletionModal", [value |-> FALSE]),
                    Update("completingDayId", [value |-> Null])>>
        /\ last' = Ran("confirmCompletionCalled", dayId, Null, plan)
  /\ UNCHANGED <<appVars, viewVars, timerVars, visualVars>>
  /\ UNCHANGED <<storage, mounted, uncaught>>

\* the render and commit after a handler, then the effects of the hooks that
\* were set
Commit ==
  /\ mounted
  /\ uncaught = {}
  /\ Len(updateQueue) > 0
  /\ LET applied == Batch(updateQueue)
         st == ApplyUpdates(HookState, applied)
     IN /\ completedDays' = st.completedDays
        /\ completedExercises' = st.completedExercises
        /\ workoutLogs' = st.workoutLogs
        /\ showCompletionModal' = st.showCompletionModal
        /\ completingDayId' = st.completingDayId
        /\ updateQueue' =
             SubSeq(updateQueue, Len(applied) + 1, Len(updateQueue))
        /\ PersistAfterLoad(
             UNION {HookKeys(applied[i].hook) : i \in DOMAIN applied}, {})
  /\ last' = [last EXCEPT !.op = "commit"]
  /\ UNCHANGED <<profile, plan, progressHistory, loading, error,
                 showOnboarding, genPending>>
  /\ UNCHANGED <<activeWeek, draggedItem, isSwapping, swapCandidates,
                 targetSwapIndex, pendingSwaps>>
  /\ UNCHANGED <<timerVars, visualVars, mounted>>

\* handleDragStart, from an exercise row that is draggable
HandleDragStart(dayIdx, exIdx) ==
  /\ Live
  /\ ~IsNull(plan)
  /\ HasExercise(dayIdx, exIdx)
  /\ ~Includes(completedExercises,
               ExerciseIdOf(DayKey(activeWeek, dayIdx), exIdx))
  /\ draggedItem' = Some([weekIdx |-> activeWeek, dayIdx |-> dayIdx,
                          exIdx |-> exIdx])
  /\ last' = Ran("dragStart",
                 ExerciseIdOf(DayKey(activeWeek, dayIdx), exIdx), Null, plan)
  /\ UNCHANGED appVars
  /\ UNCHANGED <<activeWeek, showCompletionModal, completingDayId, isSwapping,
                 swapCandidates, targetSwapIndex, pendingSwaps>>
  /\ UNCHANGED timerVars
  /\ UNCHANGED visualVars
  /\ UNCHANGED storeVars

\* mutant: only the week of the dragged item is compared
DropCrossesDay_WeekOnly(item, targetWeekIdx, targetDayIdx) ==
  item.weekIdx # targetWeekIdx

\* handleDrop: the dragged item comes from another week or day
DropCrossesDay(item, targetWeekIdx, targetDayIdx) ==
  item.weekIdx # targetWeekIdx \/ item.dayIdx # targetDayIdx

\* handleDrop on the exercise row (activeWeek, targetDayIdx, targetExIdx)
HandleDrop(targetDayIdx, targetExIdx) ==
  /\ Live
  /\ ~IsNull(plan)
  /\ HasExercise(targetDayIdx, targetExIdx)
  /\ LET target == ExerciseIdOf(DayKey(activeWeek, targetDayIdx), targetExIdx)
     IN IF IsNull(draggedItem)
        THEN /\ UNCHANGED <<appVars, draggedItem>>
             /\ last' = Ran("dropIgnored", target, Null, plan)
        ELSE IF DropCrossesDay(Val(draggedItem), activeWeek, targetDayIdx)
        THEN /\ draggedItem' = Null
             /\ UNCHANGED appVars
             /\ last' = Ran("dropRejected", target, Null, plan)
        ELSE IF Val(draggedItem).exIdx = targetExIdx
        THEN /\ draggedItem' = Null
             /\ UNCHANGED appVars
             /\ last' = Ran("dropSame", target, Null, plan)
        ELSE LET edit == DropEdit(Val(plan), activeWeek, targetDayIdx,
                                  Val(draggedItem).exIdx, targetExIdx)
             IN /\ HandleUpdatePlan(edit.newPlan)
                /\ draggedItem' = Null
                /\ last' = Ran("move", target, Null, Some(edit.held))
  /\ UNCHANGED <<activeWeek, showCompletionModal, completingDayId, isSwapping,
                 swapCandidates, targetSwapIndex, pendingSwaps>>
  /\ UNCHANGED timerVars
  /\ UNCHANGED visualVars
  /\ Persist(IF /\ ~IsNull(draggedItem)
                /\ ~DropCrossesDay(Val(draggedItem), activeWeek, targetDayIdx)
                /\ Val(draggedItem).exIdx # targetExIdx
             THEN {PLAN} ELSE {})

\* what the provider call inside getExerciseAlternatives does
ProviderOutcomes == {"answered", "providerFailed", "noApiKey"}

\* the alternatives the provider suggests for an exercise
AlternativesFor(exerciseName) ==
  CASE exerciseName = "A" -> <<"X">>
    [] exerciseName = "B" -> <<"Y">>
    [] OTHER -> <<"Z">>

\* getExerciseAlternatives: getApiKey throws outside the try; a failure of
\* the provider call is caught inside and answered with the empty list
GetExerciseAlternatives(originalExerciseName, outcome) ==
  CASE outcome = "noApiKey" -> [threw |-> TRUE, value |-> <<>>]
    [] outcome = "providerFailed" -> [threw |-> FALSE, value |-> <<>>]
    [] OTHER -> [threw |-> FALSE,
                 value |-> AlternativesFor(originalExerciseName)]

\* initiateSwap up to the await, from the swap button of an exercise that is
\* not complete, with fewer than maxPending calls in flight
InitiateSwapUpTo(maxPending, dayIdx, exIdx) ==
  /\ Live
  /\ ~IsNull(plan)
  /\ HasExercise(dayIdx, exIdx)
  /\ ~Includes(completedExercises,
               ExerciseIdOf(DayKey(activeWeek, dayIdx), exIdx))
  /\ BagCardinality(pendingSwaps) < maxPending
  /\ targetSwapIndex' = Some([w |-> activeWeek, d |-> dayIdx, e |-> exIdx])
  /\ isSwapping' = TRUE
  /\ swapCandidates' = <<>>
  /\ pendingSwaps' =
       pendingSwaps
         (+) SetToBag({At0(At0(CurrentWeekPlan, dayIdx).exercises, exIdx)})
  /\ last' = Ran("initiateSwap",
                 ExerciseIdOf(DayKey(activeWeek, dayIdx), exIdx), Null, plan)
  /\ UNCHANGED appVars
  /\ UNCHANGED <<activeWeek, showCompletionModal, completingDayId, draggedItem>>
  /\ UNCHANGED timerVars
  /\ UNCHANGED visualVars
  /\ UNCHANGED storeVars

InitiateSwap(dayIdx, exIdx) == InitiateSwapUpTo(MaxPending, dayIdx, exIdx)

\* initiateSwap after the getExerciseAlternatives call made for exerciseName
\* resolved with alternatives
SwapAnswered(exerciseName, outcome, alternatives) ==
  /\ Live
  /\ ~IsNull(plan)
  /\ BagIn(exerciseName, pendingSwaps)
  /\ swapCandidates' = alternatives
  /\ pendingSwaps' = pendingSwaps (-) SetToBag({exerciseName})
  /\ last' = Ran("swapResolved",
                 <<[requested |-> exerciseName, outcome |-> outcome]>>,
                 Null, plan)
  /\ UNCHANGED appVars
  /\ UNCHANGED <<activeWeek, showCompletionModal, completingDayId, draggedItem,
                 isSwapping, targetSwapIndex>>
  /\ UNCHANGED timerVars
  /\ UNCHANGED visualVars
  /\ UNCHANGED storeVars

\* initiateSwap after the getExerciseAlternatives call made for exerciseName
\* threw: the catch closes the dialog and alerts
SwapThrew(exerciseName, outcome) ==
  /\ Live
  /\ ~IsNull(plan)
  /\ BagIn(exerciseName, pendingSwaps)
  /\ isSwapping' = FALSE
  /\ targetSwapIndex' = Null
  /\ pendingSwaps' = pendingSwaps (-) SetToBag({exerciseName})
  /\ last' = Ran("swapRejected",
                 <<[requested |-> exerciseName, outcome |-> outcome]>>,
                 Some("alert"), plan)
  /\ UNCHANGED appVars
  /\ UNCHANGED <<activeWeek, showCompletionModal, completingDayId, draggedItem,
                 swapCandidates>>
  /\ UNCHANGED timerVars
  /\ UNCHANGED visualVars
  /\ UNCHANGED storeVars

\* initiateSwap after getExerciseAlternatives resolved
SwapResolved(alternatives) ==
  \E ex \in BagToSet(pendingSwaps) : SwapAnswered(ex, "answered", alternatives)

\* initiateSwap after getExerciseAlternatives threw
SwapRejected ==
  \E ex \in BagToSet(pendingSwaps) : SwapThrew(ex, "noApiKey")

\* initiateSwap after the await, by what the call made for exerciseName did
SwapSettled(exerciseName, outcome) ==
  LET r == GetExerciseAlternatives(exerciseName, outcome)
  IN IF r.threw THEN SwapThrew(exerciseName, outcome)
     ELSE SwapAnswered(exerciseName, outcome, r.value)

\* the X button of the swap modal
CloseSwapModal ==
  /\ Live
  /\ ~IsNull(plan)
  /\ isSwapping
  /\ isSwapping' = FALSE
  /\ last' = Ran("closeSwapModal", <<>>, Null, plan)
  /\ UNCHANGED appVars
  /\ UNCHANGED <<activeWeek, showCompletionModal, completingDayId, draggedItem,
                 swapCandidates, targetSwapIndex, pendingSwaps>>
  /\ UNCHANGED timerVars
  /\ UNCHANGED visualVars
  /\ UNCHANGED storeVars

\* confirmSwap, from the select button of candidate k
ConfirmSwap(k) ==
  /\ Live
  /\ ~IsNull(plan)
  /\ isSwapping
  /\ k \in 1..Len(swapCandidates)
  /\ IF IsNull(targetSwapIndex)
     THEN /\ UNCHANGED <<appVars, isSwapping, targetSwapIndex,
                         swapCandidates>>
          /\ last' = Ran("swapIgnored", <<>>, Null, plan)
     ELSE LET t == Val(targetSwapIndex)
              edit == SwapEdit(Val(plan), t.w, t.d, t.e, swapCandidates[k])
          IN /\ HandleUpdatePlan(edit.newPlan)
             /\ isSwapping' = FALSE
             /\ targetSwapIndex' = Null
             /\ swapCandidates' = <<>>
             /\ last' = Ran("swap", ExerciseIdOf(DayKey(t.w, t.d), t.e), Null,
                            Some(edit.held))
  /\ UNCHANGED <<activeWeek, showCompletionModal, completingDayId, draggedItem,
                 pendingSwaps>>
  /\ UNCHANGED timerVars
  /\ loadingVisuals' = IF IsNull(targetSwapIndex) THEN loadingVisuals
                       ELSE loadingVisuals \cup {swapCandidates[k]}
  /\ UNCHANGED visuals
  /\ Persist(IF IsNull(targetSwapIndex) THEN {} ELSE {PLAN})

\* handleGenerateVisual up to the await, from the button of an exercise that
\* has no visual and no request in flight
HandleGenerateVisual(dayIdx, exIdx) ==
  /\ Live
  /\ ~IsNull(plan)
  /\ HasExercise(dayIdx, exIdx)
  /\ LET exerciseName == At0(At0(CurrentWeekPlan, dayIdx).exercises, exIdx)
     IN /\ exerciseName \notin visuals
        /\ exerciseName \notin loadingVisuals
        /\ loadingVisuals' = loadingVisuals \cup {exerciseName}
  /\ last' = Ran("generateVisual",
                 ExerciseIdOf(DayKey(activeWeek, dayIdx), exIdx), Null, plan)
  /\ UNCHANGED <<appVars, viewVars, timerVars, visuals, storeVars>>

\* handleGenerateVisual after generateExerciseVisualization resolved
VisualResolved(exerciseName, hasUrl) ==
  /\ Live
  /\ exerciseName \in loadingVisuals
  /\ visuals' = IF hasUrl THEN visuals \cup {exerciseName} ELSE visuals
  /\ loadingVisuals' = loadingVisuals \ {exerciseName}
  /\ last' = Ran("visualResolved", <<>>, Null, plan)
  /\ UNCHANGED <<appVars, viewVars, timerVars>>
  /\ Persist(IF hasUrl THEN {VISUALS_STORAGE_KEY} ELSE {})

\* handleGenerateVisual after generateExerciseVisualization threw
VisualRejected(exerciseName) ==
  /\ Live
  /\ exerciseName \in loadingVisuals
  /\ loadingVisuals' = loadingVisuals \ {exerciseName}
  /\ last' = Ran("visualRejected", <<>>, Null, plan)
  /\ UNCHANGED <<appVars, viewVars, timerVars, visuals, storeVars>>

\* ----------------------------------------------------- mount and the store
\* the first render of App: the useState initializers, the mount of the plan
\* view when a plan was loaded, then every effect
AppMount ==
  /\ ~mounted
  /\ uncaught = {}
  /\ LET pf == Load(storage, PROFILE, Null)
         pl == Load(storage, PLAN, Null)
         cd == Load(storage, COMPLETED, <<>>)
         ce == Load(storage, COMPLETED_EXERCISES, <<>>)
         ph == Load(storage, PROGRESS, <<>>)
         wl == Load(storage, WORKOUT_LOGS, <<>>)
         vs == Load(storage, VISUALS_STORAGE_KEY, {})
         hasView == ~IsNull(pl.value)
     IN /\ profile' = pf.value
        /\ plan' = pl.value
        /\ completedDays' = cd.value
        /\ completedExercises' = ce.value
        /\ progressHistory' = ph.value
        /\ workoutLogs' = wl.value
        /\ visuals' = IF hasView THEN vs.value ELSE {}
        /\ last' = Ran("mount", <<>>, Null, plan)
        /\ UNCHANGED <<loading, error, showOnboarding, genPending>>
        /\ UNCHANGED <<viewVars, timerVars, loadingVisuals>>
        /\ mounted' = TRUE
        /\ UNCHANGED updateQueue
        /\ PersistAfterLoad(
             Range(AppKeys)
               \cup (IF hasView THEN {VISUALS_STORAGE_KEY} ELSE {}),
             (IF pf.raised THEN {PROFILE} ELSE {})
               \cup (IF pl.raised THEN {PLAN} ELSE {})
               \cup (IF cd.raised THEN {COMPLETED} ELSE {})
               \cup (IF ce.raised THEN {COMPLETED_EXERCISES} ELSE {})
               \cup (IF ph.raised THEN {PROGRESS} ELSE {})
               \cup (IF wl.raised THEN {WORKOUT_LOGS} ELSE {})
               \cup (IF hasView /\ vs.raised THEN {VISUALS_STORAGE_KEY}
                     ELSE {}))

\* the environment: the store fills up, or space is made
StorageModeChanges(mode) ==
  /\ mounted
  /\ mode # storage.mode
  /\ storage.mode # "unavailable"
  /\ storage' = [storage EXCEPT !.mode = mode]
  /\ last' = Ran("storageMode", <<>>, Null, plan)
  /\ UNCHANGED <<appVars, viewVars, timerVars, visualVars, mounted, uncaught,
                 updateQueue>>

\* ---------------------------------------------- ProgressTracker handlers
\* latestWeight and startWeight: null for an empty ledger
LatestWeight(entries) ==
  IF Len(entries) > 0 THEN Some(entries[Len(entries)].weight) ELSE Null
StartWeight(entries) ==
  IF Len(entries) > 0 THEN Some(entries[1].weight) ELSE Null

\* a weight in a condition: null and 0 are falsy
Truthy(w) == ~IsNull(w) /\ Val(w) # 0

\* toFixed(1) of a whole number
ToFixed1(n) ==
  (IF n < 0 THEN <<"-">> ELSE <<>>)
    \o IntToStr(IF n < 0 THEN 0 - n ELSE n) \o <<".", "0">>

\* weightChange, the text the stat renders and Number() of it:
\* latestWeight && startWeight ? (latestWeight - startWeight).toFixed(1) : 0
WeightChange(entries) ==
  IF Truthy(LatestWeight(entries)) /\ Truthy(StartWeight(entries))
  THEN [text |-> ToFixed1(Val(LatestWeight(entries))
                            - Val(StartWeight(entries))),
        number |-> Val(LatestWeight(entries)) - Val(StartWeight(entries))]
  ELSE [text |-> <<"0">>, number |-> 0]

\* the "Weight Change" stat of the stats tab, rendered for every ledger
WeightChangeStat(entries) == Some(WeightChange(entries))

\* handleWeightSubmit; parseFloat of the digits of a number field
HandleWeightSubmit(form) ==
  /\ Live
  /\ ~IsNull(plan)
  /\ Len(progressHistory) < MaxLedger
  /\ IF form.weight # <<>> /\ form.date # <<>>
     THEN LET entry == ProgressEntry(form.date, ParseInt(form.weight))
          IN /\ progressHistory' = HandleAddProgress(progressHistory, entry)
             /\ last' = Ran("addWeight", <<entry>>, Null, plan)
     ELSE /\ UNCHANGED progressHistory
          /\ last' = Ran("weightIgnored", <<>>, Null, plan)
  /\ UNCHANGED <<profile, plan, completedDays, completedExercises,
                 workoutLogs, loading, error, showOnboarding, genPending>>
  /\ UNCHANGED <<viewVars, timerVars>>
  /\ UNCHANGED visualVars
  /\ Persist(IF form.weight # <<>> /\ form.date # <<>> THEN {PROGRESS} ELSE {})

\* handleActivitySubmit
HandleActivitySubmit(form) ==
  /\ Live
  /\ ~IsNull(plan)
  /\ Len(workoutLogs) < MaxActivityLogs
  /\ IF form.activityType # "" /\ form.activityDuration # ""
     THEN /\ workoutLogs' = HandleLogWorkout(workoutLogs, ActivityLog(form))
          /\ last' = Ran("logActivity", <<ActivityLog(form)>>, Null, plan)
     ELSE /\ UNCHANGED workoutLogs
          /\ last' = Ran("activityIgnored", <<>>, Null, plan)
  /\ UNCHANGED <<profile, plan, completedDays, completedExercises,
                 progressHistory, loading, error, showOnboarding, genPending>>
  /\ UNCHANGED <<viewVars, timerVars>>
  /\ UNCHANGED visualVars
  /\ Persist(IF form.activityType # "" /\ form.activityDuration # ""
             THEN {WORKOUT_LOGS} ELSE {})

\* startRestTimer, from the rest button of an exercise that is not complete
StartRestTimer(dayIdx, exIdx) ==
  /\ Live
  /\ ~IsNull(plan)
  /\ HasExercise(dayIdx, exIdx)
  /\ ~Includes(completedExercises,
               ExerciseIdOf(DayKey(activeWeek, dayIdx), exIdx))
  /\ LET ex == At0(At0(CurrentWeekPlan, dayIdx).exercises, exIdx)
         seconds == ParseRestTime(Rest(ex))
         effect == TimerEffect(interval, tickSources,
                               Some(Timer(TRUE, seconds, seconds, ex)))
     IN /\ timer' = Some(Timer(TRUE, seconds, seconds, ex))
        /\ interval' = effect.interval
        /\ tickSources' = effect.tickSources
        /\ last' = Ran("startRestTimer",
                       ExerciseIdOf(DayKey(activeWeek, dayIdx), exIdx),
                       Null, plan)
  /\ UNCHANGED <<appVars, viewVars>>
  /\ UNCHANGED visualVars
  /\ UNCHANGED storeVars

\* the callback of a live interval; when the updater returns the value it
\* was given (null) there is no commit and the effect does not run again
TimerTick(h) ==
  /\ Live
  /\ h \in tickSources
  /\ timer' = TimerTickUpdate(timer)
  /\ IF IsNull(timer)
     THEN UNCHANGED <<interval, tickSources>>
     ELSE LET effect == TimerEffect(interval, tickSources,
                                    TimerTickUpdate(timer))
          IN /\ interval' = effect.interval
             /\ tickSources' = effect.tickSources
  /\ last' = Ran("tick", <<>>, Null, plan)
  /\ UNCHANGED <<appVars, viewVars>>
  /\ UNCHANGED visualVars
  /\ UNCHANGED storeVars

\* stopTimer
StopTimer ==
  /\ Live
  /\ ~IsNull(plan)
  /\ timer' = Null
  /\ IF IsNull(timer)
     THEN UNCHANGED <<interval, tickSources>>
     ELSE LET effect == TimerEffect(interval, tickSources, Null)
          IN /\ interval' = effect.interval
             /\ tickSources' = effect.tickSources
  /\ last' = Ran("stopTimer", <<>>, Null, plan)
  /\ UNCHANGED <<appVars, viewVars>>
  /\ UNCHANGED visualVars
  /\ UNCHANGED storeVars

\* ----------------------------------------------------------- specification
\* The application life cycle and the completion tracker.
Next ==
  \/ HandleStart
  \/ \E p \in Profiles : HandleGenerate(p)
  \/ \E g \in GeneratedPlans : GenerateResolved(g)
  \/ GenerateRejected
  \/ \E c \in BOOLEAN : HandleReset(c)
  \/ \E w \in 0..MaxWeekIdx : SetActiveWeek(w)
  \/ \E d \in 0..MaxDayIdx : HandleDayCompleteToggle(d)
  \/ \E d \in 0..MaxDayIdx, e \in 0..MaxExIdx : HandleExerciseToggle(d, e)
  \/ \E b \in BOOLEAN, lw \in {Null} \cup {Some(x) : x \in LogWeights},
        today \in Clock : ConfirmCompletion(b, lw, today)

Spec == Init /\ [][Next]_vars

\* The plan mutator: drag-and-drop moves and swaps on a generated plan, from
\* completion states the tracker reaches on that plan (MutatorStartReached).
MutatorStarts ==
  { [completedDays |-> <<>>, completedExercises |-> <<>>,
     workoutLogs |-> <<>>],
    [completedDays |-> <<>>,
     completedExercises |-> <<ExerciseIdOf(DayKey(0, 0), 1)>>,
     workoutLogs |-> <<>>],
    [completedDays |-> <<DayKey(1, 0)>>,
     completedExercises |-> <<ExerciseIdOf(DayKey(0, 0), 0),
                              ExerciseIdOf(DayKey(1, 0), 0)>>,
     workoutLogs |-> <<DayLog(DayKey(1, 0), Day("Legs", <<"D">>))>>] }

InitMutator ==
  /\ profile \in {Some(p) : p \in Profiles}
  /\ plan \in {Some(g) : g \in GeneratedPlans}
  /\ \E s \in MutatorStarts :
       /\ completedDays = s.completedDays
       /\ completedExercises = s.completedExercises
       /\ workoutLogs = s.workoutLogs
  /\ progressHistory = <<>>
  /\ loading = FALSE
  /\ error = Null
  /\ showOnboarding = TRUE
  /\ genPending = Null
  /\ activeWeek = 0
  /\ showCompletionModal = FALSE
  /\ completingDayId = Null
  /\ draggedItem = Null
  /\ isSwapping = FALSE
  /\ swapCandidates = <<>>
  /\ targetSwapIndex = Null
  /\ pendingSwaps = EmptyBag
  /\ timer = Null
  /\ interval = Null
  /\ tickSources = {}
  /\ visuals = {}
  /\ loadingVisuals = {}
  /\ storage = MountedStore({VISUALS_STORAGE_KEY})
  /\ mounted = TRUE
  /\ uncaught = {}
  /\ updateQueue = <<>>
  /\ last = [op |-> "init", arg |-> <<>>, ret |-> Null, pre |-> Snapshot,
             held |-> plan]

NextMutator ==
  \/ \E w \in 0..MaxWeekIdx : SetActiveWeek(w)
  \/ \E d \in 0..MaxDayIdx, e \in 0..MaxExIdx : HandleDragStart(d, e)
  \/ \E d \in 0..MaxDayIdx, e \in 0..MaxExIdx : HandleDrop(d, e)
  \/ \E d \in 0..MaxDayIdx, e \in 0..MaxExIdx : InitiateSwap(d, e)
  \/ \E a \in SwapAnswers : SwapResolved(a)
  \/ SwapRejected
  \/ CloseSwapModal
  \/ \E k \in 1..MaxCandidates : ConfirmSwap(k)

SpecMutator == InitMutator /\ [][NextMutator]_vars

\* The rest timer of the plan view, over the life cycle of the view.
NextTimer ==
  \/ HandleStart
  \/ \E p \in Profiles : HandleGenerate(p)
  \/ \E g \in GeneratedPlans \cup {PlanB} : GenerateResolved(g)
  \/ GenerateRejected
  \/ \E c \in BOOLEAN : HandleReset(c)
  \/ \E w \in 0..MaxWeekIdx : SetActiveWeek(w)
  \/ \E d \in 0..MaxDayIdx, e \in 0..MaxExIdx : StartRestTimer(d, e)
  \/ \E h \in tickSources : TimerTick(h)
  \/ StopTimer

SpecTimer == Init /\ [][NextTimer]_vars

\* The rest timer left to run: a timer is started only while none is
\* running and is never stopped; a live interval keeps calling its callback.
NextTimerLive ==
  \/ HandleStart
  \/ \E p \in Profiles : HandleGenerate(p)
  \/ GenerateResolved(PlanD)
  \/ GenerateRejected
  \/ \E d \in 0..MaxDayIdx, e \in 0..MaxExIdx :
       /\ IF IsNull(timer) THEN TRUE ELSE ~Val(timer).isActive
       /\ StartRestTimer(d, e)
  \/ \E h \in tickSources : TimerTick(h)

SpecTimerLive ==
  /\ Init
  /\ [][NextTimerLive]_vars
  /\ WF_vars(\E h \in tickSources : TimerTick(h))

\* The progress ledger and the workout log book.
NextLedger ==
  \/ HandleStart
  \/ \E p \in Profiles : HandleGenerate(p)
  \/ \E g \in GeneratedPlans : GenerateResolved(g)
  \/ \E c \in BOOLEAN : HandleReset(c)
  \/ HandleDayCompleteToggle(0)
  \/ \E b \in BOOLEAN, lw \in {Null} \cup {Some(x) : x \in LogWeights},
        today \in Clock : ConfirmCompletion(b, lw, today)
  \/ \E f \in WeightForms : HandleWeightSubmit(f)
  \/ \E f \in ActivityForms : HandleActivitySubmit(f)

SpecLedger == Init /\ [][NextLedger]_vars

\* Loading: the application is constructed over a store left by an earlier
\* visit, each key missing, unparsable or holding what that visit saved.
SavedValue(key) ==
  Persisted(Some("p1"), Some(PlanA), <<DayKey(1, 0)>>,
            <<ExerciseIdOf(DayKey(0, 0), 0), ExerciseIdOf(DayKey(1, 0), 0)>>,
            <<ProgressEntry(Date0107, 70)>>,
            <<DayLog(DayKey(1, 0), Day("Legs", <<"D">>))>>,
            {"A"})[key]

StoredTexts(key) ==
  {Null, Some(CorruptText), Some(JsonStringify(SavedValue(key)))}
    \cup (IF key = COMPLETED THEN {Some(EmptyText)} ELSE {})

InitLoad ==
  /\ profile = Null
  /\ plan = Null
  /\ completedDays = <<>>
  /\ completedExercises = <<>>
  /\ progressHistory = <<>>
  /\ workoutLogs = <<>>
  /\ loading = FALSE
  /\ error = Null
  /\ showOnboarding = FALSE
  /\ genPending = Null
  /\ activeWeek = 0
  /\ showCompletionModal = FALSE
  /\ completingDayId = Null
  /\ draggedItem = Null
  /\ isSwapping = FALSE
  /\ swapCandidates = <<>>
  /\ targetSwapIndex = Null
  /\ pendingSwaps = EmptyBag
  /\ timer = Null
  /\ interval = Null
  /\ tickSources = {}
  /\ visuals = {}
  /\ loadingVisuals = {}
  /\ \E mode \in StorageModes,
        pf \in StoredTexts(PROFILE), pl \in StoredTexts(PLAN),
        cd \in StoredTexts(COMPLETED), ce \in StoredTexts(COMPLETED_EXERCISES),
        ph \in StoredTexts(PROGRESS), wl \in StoredTexts(WORKOUT_LOGS),
        vs \in StoredTexts(VISUALS_STORAGE_KEY) :
       storage = [mode |-> mode,
                  items |-> Persisted(pf, pl, cd, ce, ph, wl, vs)]
  /\ mounted = FALSE
  /\ uncaught = {}
  /\ updateQueue = <<>>
  /\ last = [op |-> "init", arg |-> <<>>, ret |-> Null, pre |-> Snapshot,
             held |-> Null]

NextLoad ==
  \/ AppMount
  \/ HandleStart
  \/ \E p \in Profiles : HandleGenerate(p)
  \/ \E g \in GeneratedPlans : GenerateResolved(g)
  \/ GenerateRejected

SpecLoad == InitLoad /\ [][NextLoad]_vars

\* Saving: the handlers that set persisted state, over a store that fills up.
NextSave ==
  \/ \E mode \in {"ok", "full"} : StorageModeChanges(mode)
  \/ HandleStart
  \/ \E p \in Profiles : HandleGenerate(p)
  \/ \E g \in GeneratedPlans : GenerateResolved(g)
  \/ GenerateRejected
  \/ \E c \in BOOLEAN : HandleReset(c)
  \/ \E e \in 0..MaxExIdx : HandleExerciseToggle(0, e)
  \/ \E e \in 0..MaxExIdx : HandleGenerateVisual(0, e)
  \/ \E ex \in loadingVisuals, a \in VisualAnswers : VisualResolved(ex, a)
  \/ \E ex \in loadingVisuals : VisualRejected(ex)

SpecSave == Init /\ [][NextSave]_vars

\* Batching: the completion handlers split into the handler, which queues
\* its updates, and the render that applies them.
NextBatch ==
  \/ HandleStart
  \/ \E p \in Profiles : HandleGenerate(p)
  \/ \E g \in GeneratedPlans : GenerateResolved(g)
  \/ GenerateRejected
  \/ \E c \in BOOLEAN : HandleReset(c)
  \/ \E w \in 0..MaxWeekIdx : SetActiveWeek(w)
  \/ \E d \in 0..MaxDayIdx, e \in 0..MaxExIdx : HandleExerciseToggle(d, e)
  \/ \E d \in 0..MaxDayIdx : HandleDayCompleteToggleCalled(d)
  \/ ConfirmCompletionCalled
  \/ Commit

SpecBatch == Init /\ [][NextBatch]_vars

\* Swapping: swap requests that overlap, with every outcome of the provider
\* call, dialog dismissals and selections. The open dialog covers the swap
\* buttons, so a request is made only while it is closed.
NextSwap ==
  \/ \E d \in 0..MaxDayIdx, e \in 0..MaxExIdx :
       /\ ~isSwapping
       /\ InitiateSwapUpTo(MaxSwapsInFlight, d, e)
  \/ \E ex \in BagToSet(pendingSwaps), o \in ProviderOutcomes :
       SwapSettled(ex, o)
  \/ CloseSwapModal
  \/ \E k \in 1..MaxCandidates : ConfirmSwap(k)

SpecSwap == InitMutator /\ [][NextSwap]_vars

\* Dragging: drags and drops on a plan that has two workout days in a week.
NextDrop ==
  \/ HandleStart
  \/ \E p \in Profiles : HandleGenerate(p)
  \/ GenerateResolved(PlanC)
  \/ GenerateRejected
  \/ \E c \in BOOLEAN : HandleReset(c)
  \/ \E w \in 0..MaxWeekIdx : SetActiveWeek(w)
  \/ \E d \in 0..MaxDayIdx, e \in 0..MaxExIdx : HandleDragStart(d, e)
  \/ \E d \in 0..MaxDayIdx, e \in 0..MaxExIdx : HandleDrop(d, e)

SpecDrop == Init /\ [][NextDrop]_vars

\* every start of SpecMutator is a state Spec reaches
MutatorStartReached(s) ==
  /\ plan \in {Some(g) : g \in GeneratedPlans}
  /\ completedDays = s.completedDays
  /\ completedExercises = s.completedExercises
  /\ workoutLogs = s.workoutLogs
  /\ progressHistory = <<>>
  /\ ~showCompletionModal

\* The completion dialog and the swap dialog cover the page, so the controls
\* under them are used while neither is open.
NoDialog == ~showCompletionModal /\ ~isSwapping

\* Restart recovery: the application is constructed over a store that is
\* empty, holds unparsable texts, holds what an earlier visit saved or holds
\* that without the plan, and the handlers that set persisted state run over
\* it while it fills up.
MirrorStores ==
  {[mode |-> "ok", items |-> EmptyItems],
   [mode |-> "ok", items |-> [k \in AllKeys |-> Some(CorruptText)]],
   [mode |-> "ok",
    items |-> [k \in AllKeys |-> Some(JsonStringify(SavedValue(k)))]],
   [mode |-> "ok",
    items |-> [k \in AllKeys |->
                 IF k = PLAN THEN Null
                 ELSE Some(JsonStringify(SavedValue(k)))]]}

InitMirror == InitLoad /\ storage \in MirrorStores

NextMirror ==
  \/ AppMount
  \/ \E mode \in {"ok", "full"} : StorageModeChanges(mode)
  \/ HandleStart
  \/ \E p \in Profiles : HandleGenerate(p)
  \/ \E g \in GeneratedPlans : GenerateResolved(g)
  \/ GenerateRejected
  \/ \E c \in BOOLEAN : NoDialog /\ HandleReset(c)
  \/ \E d \in 0..MaxDayIdx : NoDialog /\ HandleDayCompleteToggle(d)
  \/ \E d \in 0..MaxDayIdx, e \in 0..MaxExIdx :
       NoDialog /\ HandleExerciseToggle(d, e)
  \/ \E today \in Clock : ConfirmCompletion(TRUE, Some(70), today)
  \/ NoDialog /\ HandleDragStart(0, 0)
  \/ \E e \in 0..MaxExIdx : NoDialog /\ HandleDrop(0, e)
  \/ /\ NoDialog
     /\ HandleWeightSubmit([weight |-> <<"8", "2">>, date |-> Date0105])

SpecMirror == InitMirror /\ [][NextMirror]_vars

\* Completion tracking, moves and swaps together, on a plan whose rest-focus
\* day lists exercises.
NextAccount ==
  \/ HandleStart
  \/ \E p \in Profiles : HandleGenerate(p)
  \/ GenerateResolved(PlanE)
  \/ GenerateRejected
  \/ NoDialog /\ HandleReset(TRUE)
  \/ \E d \in 0..MaxDayIdx : NoDialog /\ HandleDayCompleteToggle(d)
  \/ \E d \in 0..MaxDayIdx, e \in 0..MaxExIdx :
       NoDialog /\ HandleExerciseToggle(d, e)
  \/ \E today \in Clock : ConfirmCompletion(FALSE, Null, today)
  \/ \E d \in 0..MaxDayIdx, e \in 0..MaxExIdx :
       NoDialog /\ HandleDragStart(d, e)
  \/ \E d \in 0..MaxDayIdx, e \in 0..MaxExIdx : NoDialog /\ HandleDrop(d, e)
  \/ \E d \in 0..MaxDayIdx, e \in 0..MaxExIdx :
       NoDialog /\ InitiateSwapUpTo(1, d, e)
  \/ \E a \in SwapAnswers : SwapResolved(a)
  \/ \E k \in 1..MaxCandidates : ConfirmSwap(k)

SpecAccount == Init /\ [][NextAccount]_vars

\* =================================================================== claims
\* positions and ids of a plan, for the statements below
DayPositions(p) ==
  UNION {{<<w - 1, d - 1>> : d \in 1..Len(Val(p).weeks[w])} :
         w \in 1..Len(Val(p).weeks)}
ExercisesAt(p, w, d) == Val(p).weeks[w + 1][d + 1].exercises
DayExerciseIdSet(p, w, d) ==
  {ExerciseIdOf(DayKey(w, d), e - 1) : e \in 1..Len(ExercisesAt(p, w, d))}
IsPlanDay(p, dayId) ==
  \E pos \in DayPositions(p) : dayId = DayKey(pos[1], pos[2])
\* the exercise ids of the plan day whose id is dayId
IdsOfDay(p, dayId) ==
  UNION {DayExerciseIdSet(p, pos[1], pos[2]) :
         pos \in {q \in DayPositions(p) : dayId = DayKey(q[1], q[2])}}

\* handleToggleDayComplete(last.arg) has just run (directly, or from
\* confirmCompletion)
ToggledDay ==
  /\ last.op \in {"toggleDay", "confirmCompletion"}
  /\ last.arg # <<>>
WasComplete == Includes(last.pre.completedDays, last.arg)

\* toggling last.arg once more on the current state
ToggledAgain ==
  HandleToggleDayComplete(completedDays, completedExercises, plan, last.arg)

\* C1: right after toggleDay(d) has taken a plan day d from incomplete to
\* complete, d is in completedDays and the id of every exercise index of d
\* is in completedExercises, whatever was complete before.
C1_DayCompleteCascadesDown ==
  (ToggledDay /\ ~WasComplete) =>
    /\ IsPlanDay(plan, last.arg)
    /\ Includes(completedDays, last.arg)
    /\ IdsOfDay(plan, last.arg) \subseteq Range(completedExercises)

\* C1 witness: a three-exercise day was completed while exactly one of its
\* exercises was complete
C1_Witness ==
  /\ ToggledDay /\ ~WasComplete
  /\ last.arg = DayKey(0, 0)
  /\ last.pre.completedExercises = <<ExerciseIdOf(DayKey(0, 0), 1)>>
  /\ Len(completedExercises) = 3

\* C2: when toggleDay(d) takes d from complete to incomplete, d leaves
\* completedDays, every exercise id of d leaves completedExercises, and the
\* ids of every other day keep their membership.
C2_DayIncompleteCascadesDown ==
  (ToggledDay /\ WasComplete) =>
    /\ ~Includes(completedDays, last.arg)
    /\ IdsOfDay(plan, last.arg) \cap Range(completedExercises) = {}
    /\ Range(completedDays) = Range(last.pre.completedDays) \ {last.arg}
    /\ Range(completedExercises) =
         Range(last.pre.completedExercises) \ IdsOfDay(plan, last.arg)

\* C2 witness: a day was un-completed while another day and its exercise
\* stayed complete
C2_Witness ==
  /\ ToggledDay /\ WasComplete
  /\ last.arg = DayKey(0, 0)
  /\ Len(last.pre.completedExercises) = 4
  /\ Includes(completedDays, DayKey(1, 0))
  /\ completedExercises = <<ExerciseIdOf(DayKey(1, 0), 0)>>

\* before the first toggle, the exercises of last.arg were all complete if
\* the day was complete and all incomplete if it was not
WasUniform ==
  IF WasComplete
  THEN IdsOfDay(plan, last.arg) \subseteq Range(last.pre.completedExercises)
  ELSE IdsOfDay(plan, last.arg) \cap Range(last.pre.completedExercises) = {}

\* C3 as stated: toggleDay(d) twice in a row restores completedDays and
\* completedExercises to their prior contents, from every state.
C3_AsStated ==
  ToggledDay =>
    /\ Range(ToggledAgain.completedDays) = Range(last.pre.completedDays)
    /\ Range(ToggledAgain.completedExercises) =
         Range(last.pre.completedExercises)

\* C3 amended: toggleDay(d) twice in a row restores completedDays, and the
\* membership of every exercise id of the other days; it restores the
\* exercise ids of d as well when, before the first toggle, they were all
\* complete (d complete) or all incomplete (d incomplete); otherwise they end
\* all complete (d was complete) or all incomplete (d was incomplete).
C3_RoundTripWhenUniform ==
  ToggledDay =>
    /\ Range(ToggledAgain.completedDays) = Range(last.pre.completedDays)
    /\ Range(ToggledAgain.completedExercises) \ IdsOfDay(plan, last.arg) =
         Range(last.pre.completedExercises) \ IdsOfDay(plan, last.arg)
    /\ WasUniform =>
         Range(ToggledAgain.completedExercises) =
           Range(last.pre.completedExercises)
    /\ ~WasUniform =>
         IF WasComplete
         THEN IdsOfDay(plan, last.arg)
                \subseteq Range(ToggledAgain.completedExercises)
         ELSE IdsOfDay(plan, last.arg)
                \cap Range(ToggledAgain.completedExercises) = {}

\* C3 witness: a complete three-exercise day with all its exercises complete
\* was toggled, and the second toggle brings the three ids back
C3_Witness ==
  /\ ToggledDay /\ WasComplete /\ WasUniform
  /\ last.arg = DayKey(0, 0)
  /\ Cardinality(IdsOfDay(plan, last.arg)) = 3
  /\ Len(completedExercises) = 0
  /\ Len(ToggledAgain.completedExercises) = 3

\* C4 as stated: if d has N exercises, toggleDay(d) from incomplete adds
\* exactly N ids to completedExercises and toggling again removes exactly
\* those N ids.
C4_AsStated ==
  (ToggledDay /\ ~WasComplete) =>
    LET N == Cardinality(IdsOfDay(plan, last.arg))
    IN /\ Len(completedExercises) = Len(last.pre.completedExercises) + N
       /\ Len(ToggledAgain.completedExercises) = Len(completedExercises) - N
       /\ Range(ToggledAgain.completedExercises) =
            Range(completedExercises) \ IdsOfDay(plan, last.arg)

\* C4 amended: if d has N exercises of which k were already complete,
\* toggleDay(d) from incomplete adds exactly the N - k ids that were missing
\* (N when none was complete), after which all N are present once each;
\* toggling again removes exactly those N ids.
C4_AddsMissingRemovesAll ==
  (ToggledDay /\ ~WasComplete) =>
    LET ids == IdsOfDay(plan, last.arg)
        N == Cardinality(ids)
        k == Cardinality(ids \cap Range(last.pre.completedExercises))
    IN /\ Len(completedExercises) = Len(last.pre.completedExercises) + N - k
       /\ Range(completedExercises) =
            Range(last.pre.completedExercises) \cup ids
       /\ Cardinality(Range(completedExercises)) = Len(completedExercises)
       /\ Len(ToggledAgain.completedExercises) = Len(completedExercises) - N
       /\ Range(ToggledAgain.completedExercises) =
            Range(completedExercises) \ ids

\* C4 witness: a three-exercise day was completed while two of its exercises
\* were complete, so one id was added
C4_Witness ==
  /\ ToggledDay /\ ~WasComplete
  /\ Cardinality(IdsOfDay(plan, last.arg)) = 3
  /\ Cardinality(IdsOfDay(plan, last.arg)
                 \cap Range(last.pre.completedExercises)) = 2
  /\ Len(completedExercises) = Len(last.pre.completedExercises) + 1

ExercisePositions(p) ==
  UNION {{<<pos[1], pos[2], e - 1>> :
            e \in 1..Len(ExercisesAt(p, pos[1], pos[2]))} :
         pos \in DayPositions(p)}
ExerciseIdAt(pos) == ExerciseIdOf(DayKey(pos[1], pos[2]), pos[3])

\* handleToggleExerciseComplete(last.arg) has just run
ToggledExercise == last.op = "toggleExercise"
ExerciseWasComplete == Includes(last.pre.completedExercises, last.arg)

\* toggling the exercise last.arg once more on the current state
ExerciseToggledAgain ==
  HandleToggleExerciseComplete(completedDays, completedExercises, plan,
                               last.arg)

\* C5: toggleExercise returns the owning dayId as the pending-completion
\* signal exactly when the toggle completes an exercise, every other exercise
\* of that day is already complete and the day is not in completedDays, and
\* returns no signal otherwise; the day is still absent from completedDays
\* after the signal, and a day enters completedDays only when the caller
\* commits it (confirmCompletion).
C5_SignalExactlyOnLastExercise ==
  /\ ToggledExercise =>
       /\ \E pos \in ExercisePositions(plan) : last.arg = ExerciseIdAt(pos)
       /\ \A pos \in ExercisePositions(plan) :
            last.arg = ExerciseIdAt(pos) =>
              LET dayId == DayKey(pos[1], pos[2])
                  others == DayExerciseIdSet(plan, pos[1], pos[2])
                              \ {last.arg}
                  due == /\ ~ExerciseWasComplete
                         /\ others \subseteq
                              Range(last.pre.completedExercises)
                         /\ ~Includes(last.pre.completedDays, dayId)
              IN /\ due => last.ret = Some(dayId)
                 /\ ~due => last.ret = Null
                 /\ due => ~Includes(completedDays, dayId)
  /\ Range(completedDays) \ Range(last.pre.completedDays) # {} =>
       last.op = "confirmCompletion"

\* C5 witness: the third exercise of a three-exercise day was completed
\* after the two others, the signal names the day and the day is not complete
C5_Witness ==
  /\ ToggledExercise
  /\ last.arg = ExerciseIdOf(DayKey(0, 0), 2)
  /\ last.pre.completedExercises =
       <<ExerciseIdOf(DayKey(0, 0), 0), ExerciseIdOf(DayKey(0, 0), 1)>>
  /\ last.ret = Some(DayKey(0, 0))
  /\ ~Includes(completedDays, DayKey(0, 0))

\* C6: toggleExercise flips only the membership of the given exerciseId in
\* completedExercises and leaves completedDays unchanged, also when it
\* un-completes an exercise of a day that is in completedDays.
C6_ExerciseToggleFlipsOneId ==
  ToggledExercise =>
    /\ completedDays = last.pre.completedDays
    /\ Includes(completedExercises, last.arg) = ~ExerciseWasComplete
    /\ Range(completedExercises) \ {last.arg} =
         Range(last.pre.completedExercises) \ {last.arg}

\* C6 witness: an exercise of a complete day was un-completed and the day is
\* still in completedDays
C6_Witness ==
  /\ ToggledExercise /\ ExerciseWasComplete
  /\ last.arg = ExerciseIdOf(DayKey(0, 0), 0)
  /\ ~Includes(completedExercises, last.arg)
  /\ Includes(completedDays, DayKey(0, 0))

\* C7 as stated: two consecutive toggleExercise calls on the same id return
\* completedDays and completedExercises to the same elements in the same
\* stored order.
C7_AsStated ==
  ToggledExercise =>
    /\ completedDays = last.pre.completedDays
    /\ ExerciseToggledAgain.completedExercises =
         last.pre.completedExercises

\* C7 amended: two consecutive toggleExercise calls on the same id leave
\* completedDays unchanged and return completedExercises to the same set of
\* ids, each stored once; the stored order is the prior one when the id was
\* not complete before, and otherwise the prior one with the id moved to the
\* end.
C7_RoundTripUpToOrder ==
  ToggledExercise =>
    /\ completedDays = last.pre.completedDays
    /\ Range(ExerciseToggledAgain.completedExercises) =
         Range(last.pre.completedExercises)
    /\ Len(ExerciseToggledAgain.completedExercises) =
         Len(last.pre.completedExercises)
    /\ ExerciseToggledAgain.completedExercises =
         IF ExerciseWasComplete
         THEN Append(SelectSeq(last.pre.completedExercises,
                               LAMBDA id : id # last.arg), last.arg)
         ELSE last.pre.completedExercises

\* C7 witness: the id stored first of two was toggled, and toggling it again
\* stores it last
C7_Witness ==
  /\ ToggledExercise /\ ExerciseWasComplete
  /\ Len(last.pre.completedExercises) = 2
  /\ last.pre.completedExercises[1] = last.arg
  /\ ExerciseToggledAgain.completedExercises[2] = last.arg
  /\ ExerciseToggledAgain.completedExercises # last.pre.completedExercises

\* handleDrop has just moved an exercise / confirmSwap has just replaced one
Moved == last.op = "move"
Swapped == last.op = "swap"
RemoveAt0(arr, i) == SubSeq(arr, 1, i) \o SubSeq(arr, i + 2, Len(arr))
Count(arr, x) == Cardinality({i \in 1..Len(arr) : arr[i] = x})
\* the day the move happened in, before and after
MovedFrom == Val(last.pre.draggedItem)
MovedOld == ExercisesAt(last.pre.plan, MovedFrom.weekIdx, MovedFrom.dayIdx)
MovedNew == ExercisesAt(plan, MovedFrom.weekIdx, MovedFrom.dayIdx)
MovedTo ==
  CHOOSE to \in 0..(Len(MovedOld) - 1) :
    last.arg = ExerciseIdAt(<<MovedFrom.weekIdx, MovedFrom.dayIdx, to>>)
SwapTarget == Val(last.pre.targetSwapIndex)

\* C8: a move within one day puts the element formerly at index from at
\* index to, keeps the relative order of all other elements, and keeps the
\* length and the multiset of the day's exercises (and every other day);
\* move(2, 0) on [A, B, C, D] gives [C, A, B, D].
C8_MoveReinsertsAtTarget ==
  Moved =>
    /\ MoveExercise(<<"A", "B", "C", "D">>, 2, 0) = <<"C", "A", "B", "D">>
    /\ \E to \in 0..(Len(MovedOld) - 1) :
         last.arg = ExerciseIdAt(<<MovedFrom.weekIdx, MovedFrom.dayIdx, to>>)
    /\ Len(MovedNew) = Len(MovedOld)
    /\ At0(MovedNew, MovedTo) = At0(MovedOld, MovedFrom.exIdx)
    /\ RemoveAt0(MovedNew, MovedTo) = RemoveAt0(MovedOld, MovedFrom.exIdx)
    /\ \A x \in Range(MovedOld) \cup Range(MovedNew) :
         Count(MovedNew, x) = Count(MovedOld, x)
    /\ DayPositions(plan) = DayPositions(last.pre.plan)
    /\ \A pos \in DayPositions(plan) :
         pos # <<MovedFrom.weekIdx, MovedFrom.dayIdx>> =>
           ExercisesAt(plan, pos[1], pos[2]) =
             ExercisesAt(last.pre.plan, pos[1], pos[2])

\* C8 witness: the third of three exercises was dropped on the first
C8_Witness ==
  /\ Moved
  /\ MovedFrom.exIdx = 2 /\ MovedTo = 0
  /\ MovedOld = <<"A", "B", "C">>
  /\ MovedNew = <<"C", "A", "B">>

C10_EditsLeaveCompletion ==
  (Moved \/ Swapped) =>
    /\ completedDays = last.pre.completedDays
    /\ completedExercises = last.pre.completedExercises

\* C10 witness: an exercise was moved across a completed position, whose id
\* is still complete and now names another exercise
C10_Witness ==
  /\ Moved
  /\ completedExercises = <<ExerciseIdOf(DayKey(0, 0), 1)>>
  /\ MovedFrom.weekIdx = 0 /\ MovedFrom.dayIdx = 0
  /\ At0(MovedNew, 1) # At0(MovedOld, 1)

\* C11: a swap at (w, d, e) yields a plan whose exercise at (w, d, e) is the
\* chosen candidate, in which every other exercise of every day and week is
\* the one it was, and in which every exercise list, week and plan has the
\* length it had.
C11_SwapReplacesOnePosition ==
  Swapped =>
    /\ <<SwapTarget.w, SwapTarget.d, SwapTarget.e>>
         \in ExercisePositions(last.pre.plan)
    /\ Includes(last.pre.swapCandidates,
                At0(ExercisesAt(plan, SwapTarget.w, SwapTarget.d),
                    SwapTarget.e))
    /\ DayPositions(plan) = DayPositions(last.pre.plan)
    /\ ExercisePositions(plan) = ExercisePositions(last.pre.plan)
    /\ \A pos \in ExercisePositions(plan) :
         pos # <<SwapTarget.w, SwapTarget.d, SwapTarget.e>> =>
           At0(ExercisesAt(plan, pos[1], pos[2]), pos[3]) =
             At0(ExercisesAt(last.pre.plan, pos[1], pos[2]), pos[3])
    /\ \A pos \in DayPositions(plan) :
         Val(plan).weeks[pos[1] + 1][pos[2] + 1].focus =
           Val(last.pre.plan).weeks[pos[1] + 1][pos[2] + 1].focus

\* C11 witness: the second of three exercises was swapped for X and its
\* neighbours are the ones they were
C11_Witness ==
  /\ Swapped
  /\ SwapTarget = [w |-> 0, d |-> 0, e |-> 1]
  /\ ExercisesAt(last.pre.plan, 0, 0) = <<"A", "B", "C">>
  /\ ExercisesAt(plan, 0, 0) = <<"A", "X", "C">>

\* the timer states of the rest timer
Idle == IsNull(timer)
Running == ~IsNull(timer) /\ Val(timer).isActive
Expired == ~IsNull(timer) /\ ~Val(timer).isActive
WasRunning == ~IsNull(last.pre.timer) /\ Val(last.pre.timer).isActive

\* startRestTimer has just run on the exercise whose id is last.arg
Started == last.op = "startRestTimer"
StartedExercise ==
  LET pos == CHOOSE q \in ExercisePositions(plan) : ExerciseIdAt(q) = last.arg
  IN At0(ExercisesAt(plan, pos[1], pos[2]), pos[3])
Ticked == last.op = "tick"

\* C12: starting a rest timer while another is Running replaces it at once:
\* the timer is Running with the label of the new exercise and remaining =
\* total = the parsed duration of its rest text; at every moment there is at
\* most one live tick source, and every live tick source was set for the
\* current timer value, so no tick of a replaced timer reaches the new one.
C12_StartReplacesRunningTimer ==
  /\ Cardinality(tickSources) <= 1
  /\ \A h \in tickSources : ~IsNull(timer) /\ h.of = Val(timer)
  /\ Started =>
       LET seconds == ParseRestTime(Rest(StartedExercise))
       IN /\ timer = Some(Timer(TRUE, seconds, seconds, StartedExercise))
          /\ last.pre.tickSources \cap tickSources = {}
          /\ seconds > 0 => Cardinality(tickSources) = 1

\* C12 witness: a timer for B was started while the timer of A was Running
\* and had ticked; the tick source of A is gone
C12_Witness ==
  /\ Started /\ WasRunning
  /\ Val(last.pre.timer).label = "A"
  /\ Val(last.pre.timer).remaining < Val(last.pre.timer).total
  /\ last.pre.tickSources # {}
  /\ timer = Some(Timer(TRUE, 120, 120, "B"))

\* C13: a tick happens only to a Running timer with remaining > 0; it
\* decrements remaining by exactly 1 and leaves total and label unchanged;
\* the timer is Expired after the tick exactly when remaining has reached 0;
\* an Expired timer has remaining 0 and no tick source, and it changes only
\* by a start, a stop or the teardown of the view; in every timer state
\* 0 <= remaining <= total.
C13_TickCountsDownToExpired ==
  /\ ~Idle => 0 <= Val(timer).remaining /\ Val(timer).remaining <= Val(timer).total
  /\ Expired => Val(timer).remaining = 0 /\ tickSources = {}
  /\ Ticked =>
       /\ WasRunning /\ Val(last.pre.timer).remaining > 0
       /\ ~Idle
       /\ Val(timer).remaining = Val(last.pre.timer).remaining - 1
       /\ Val(timer).total = Val(last.pre.timer).total
       /\ Val(timer).label = Val(last.pre.timer).label
       /\ Expired <=> Val(timer).remaining = 0
  /\ (~IsNull(last.pre.timer) /\ ~Val(last.pre.timer).isActive
        /\ timer # last.pre.timer) =>
       last.op \in {"startRestTimer", "stopTimer", "reset"}

\* C13 witness: the tick that took a 90 second timer from 1 to 0
C13_Witness ==
  /\ Ticked
  /\ Val(last.pre.timer).remaining = 1
  /\ timer = Some(Timer(FALSE, 0, 90, "A"))
  /\ tickSources = {}

\* C14: after stopTimer from any timer state, and after the plan view is
\* torn down, the timer is Idle and no tick source is live; an Idle timer
\* never has a live tick source.
C14_StopCancelsTickSource ==
  /\ last.op = "stopTimer" => Idle /\ tickSources = {}
  /\ last.op = "reset" => Idle /\ tickSources = {}
  /\ IsNull(plan) => Idle
  /\ Idle => tickSources = {}

\* C14 witness: a Running timer that had ticked was stopped
C14_Witness ==
  /\ last.op = "stopTimer"
  /\ WasRunning
  /\ Val(last.pre.timer).remaining < Val(last.pre.timer).total
  /\ last.pre.tickSources # {}
  /\ Idle /\ tickSources = {}

\* the rest texts the parser is applied to
RestTexts == {Rest(ex) : ex \in {"A", "B", "C", "D", "E", "F", "G", "X"}}
HasDigit(s) == \E i \in 1..Len(s) : IsDigit(s[i])

\* C15: the rest-duration parser maps a rest text to whole seconds: a number
\* followed by a minute unit (min, or m at a word boundary) anywhere in the
\* text gives that number times 60, otherwise the first run of digits gives
\* the seconds, otherwise (empty or digit-free text) the result is 60; "90s"
\* gives 90, "2 min" 120, "" 60 and "abc" 60, and every started timer has
\* the parsed duration of its exercise's rest text.
C15_ParseRestTime ==
  Started =>
    /\ ParseRestTime(<<"9", "0", "s">>) = 90
    /\ ParseRestTime(<<"2", " ", "m", "i", "n">>) = 120
    /\ ParseRestTime(<<>>) = 60
    /\ ParseRestTime(<<"a", "b", "c">>) = 60
    /\ ParseRestTime(<<"1", ".", "5", " ", "M", "i", "n">>) = 300
    /\ ParseRestTime(<<"3", "m">>) = 180
    /\ ParseRestTime(<<"1", "m", "3", "0", "s">>) = 1
    /\ \A text \in RestTexts :
         LET lower == ToLowerCase(text)
         IN /\ ~HasDigit(text) => ParseRestTime(text) = 60
            /\ ~IsNull(MinMatch(lower)) =>
                 ParseRestTime(text) = 60 * ParseInt(Val(MinMatch(lower)))
            /\ (HasDigit(text) /\ IsNull(MinMatch(lower))) =>
                 ParseRestTime(text) = ParseInt(Val(DigitsMatch(lower)))
    /\ Val(timer).total = ParseRestTime(Rest(Val(timer).label))
    /\ Val(timer).total =
         (CASE Val(timer).label = "A" -> 90
            [] Val(timer).label = "B" -> 120
            [] Val(timer).label = "C" -> 60
            [] Val(timer).label = "D" -> 60
            [] Val(timer).label = "E" -> 1
            [] Val(timer).label = "F" -> 300
            [] Val(timer).label = "G" -> 180)

\* C15 witness: a timer was started from the rest text "2 min" and runs for
\* 120 seconds
C15_Witness ==
  /\ Started
  /\ Rest(StartedExercise) = <<"2", " ", "m", "i", "n">>
  /\ Val(timer).total = 120 /\ Val(timer).remaining = 120

\* the ledger is in ascending order of date
SortedByDate(arr) ==
  \A i \in 1..Len(arr), j \in 1..Len(arr) :
    i < j => GetTime(arr[i].date) <= GetTime(arr[j].date)
Entry0110 == ProgressEntry(Date0110, 80)
Entry0105 == ProgressEntry(Date0105, 82)

\* C16: every handler either leaves the progress ledger as it was or adds
\* one entry (the weight form, or a completion logged with a weight); after
\* an add the ledger is one entry longer, taking the new entry out gives the
\* prior ledger (nothing dropped, merged or reordered), the ledger is in
\* ascending order of date, and the new entry comes after the entries of its
\* own date; add(2024-01-10, 80) then add(2024-01-05, 82) gives
\* [(2024-01-05, 82), (2024-01-10, 80)].
C16_AddKeepsLedgerSorted ==
  /\ SortedByDate(progressHistory)
  /\ progressHistory # last.pre.progressHistory =>
       /\ last.op \in {"addWeight", "confirmCompletion"}
       /\ Len(progressHistory) = Len(last.pre.progressHistory) + 1
       /\ \E k \in 1..Len(progressHistory) :
            /\ RemoveAt0(progressHistory, k - 1) = last.pre.progressHistory
            /\ last.op = "addWeight" => progressHistory[k] = last.arg[1]
            /\ \A i \in 1..(k - 1) :
                 GetTime(progressHistory[i].date)
                   <= GetTime(progressHistory[k].date)
            /\ \A i \in (k + 1)..Len(progressHistory) :
                 GetTime(progressHistory[i].date)
                   > GetTime(progressHistory[k].date)
  /\ last.op = "addWeight" =>
       /\ progressHistory # last.pre.progressHistory
       /\ HandleAddProgress(HandleAddProgress(<<>>, Entry0110), Entry0105)
            = <<Entry0105, Entry0110>>

\* C16 witness: (2024-01-05, 82) was added to a ledger holding two entries
\* of 2024-01-10 and went first, the two others keeping their order
C16_Witness ==
  /\ last.op = "addWeight"
  /\ last.pre.progressHistory = <<Entry0110, ProgressEntry(Date0110, 70)>>
  /\ progressHistory = <<Entry0105, Entry0110, ProgressEntry(Date0110, 70)>>

\* C17: the workout log is newest first: logging a completed plan day or an
\* activity puts the new log at the head and keeps every earlier entry, in
\* order, behind it; a reset or a newly generated plan empties the log; no
\* other handler changes it.
C17_LogIsNewestFirst ==
  /\ last.op = "logActivity" =>
       /\ workoutLogs = <<last.arg[1]>> \o last.pre.workoutLogs
       /\ IsNull(Head(workoutLogs).dayId)
       /\ Head(workoutLogs).focus = "Custom Activity"
  /\ (last.op = "confirmCompletion" /\ last.arg # <<>>) =>
       /\ Tail(workoutLogs) = last.pre.workoutLogs
       /\ Head(workoutLogs).dayId = Some(last.arg)
  /\ last.op \in {"reset", "generateResolved"} => workoutLogs = <<>>
  /\ workoutLogs # last.pre.workoutLogs =>
       \/ last.op \in {"logActivity", "reset", "generateResolved"}
       \/ last.op = "confirmCompletion" /\ last.arg # <<>>

\* C17 witness: an activity was logged on top of a plan-day log that lies on
\* top of an earlier activity
C17_Witness ==
  /\ last.op = "logActivity"
  /\ Len(workoutLogs) = 3
  /\ workoutLogs[1].dayName = "Swim"
  /\ workoutLogs[2].dayId = Some(DayKey(0, 0))
  /\ IsNull(workoutLogs[3].dayId)

\* what a key of the store gives a reader: the saved value when the store
\* can be read and the text of the key is JSON text, the default otherwise
Readable(store, key) ==
  /\ store.mode # "unavailable"
  /\ ~IsNull(store.items[key])
  /\ Val(store.items[key]).kind = "json"
StoredOr(store, key, default) ==
  IF Readable(store, key) THEN Val(store.items[key]).value[1] ELSE default
Mounted == last.op = "mount"

\* C18: loading never raises: no exception of an initializer goes uncaught;
\* after the mount each of profile, plan, completed days, completed
\* exercises, progress and workout logs holds what its own key held, or its
\* default (null or the empty list) when the key is missing, the store is
\* unavailable or the text is empty or unparsable, whatever the other keys
\* hold; the visuals of a mounted plan view are loaded the same way, with
\* the empty map as default.
C18_LoadNeverRaises ==
  /\ \A u \in uncaught : u.during # "load"
  /\ Mounted =>
       /\ profile = StoredOr(last.pre.storage, PROFILE, Null)
       /\ plan = StoredOr(last.pre.storage, PLAN, Null)
       /\ completedDays = StoredOr(last.pre.storage, COMPLETED, <<>>)
       /\ completedExercises =
            StoredOr(last.pre.storage, COMPLETED_EXERCISES, <<>>)
       /\ progressHistory = StoredOr(last.pre.storage, PROGRESS, <<>>)
       /\ workoutLogs = StoredOr(last.pre.storage, WORKOUT_LOGS, <<>>)
       /\ ~IsNull(plan) =>
            visuals = StoredOr(last.pre.storage, VISUALS_STORAGE_KEY, {})
  /\ last.op = "generateResolved" =>
       visuals = StoredOr(last.pre.storage, VISUALS_STORAGE_KEY, {})

\* C18 witness: a mount over a store whose profile is missing and whose
\* completed days and visuals are unparsable gave these three their
\* defaults and loaded the plan and the completed exercises
C18_Witness ==
  /\ Mounted
  /\ IsNull(last.pre.storage.items[PROFILE])
  /\ last.pre.storage.items[COMPLETED] = Some(CorruptText)
  /\ last.pre.storage.items[VISUALS_STORAGE_KEY] = Some(CorruptText)
  /\ profile = Null /\ completedDays = <<>> /\ visuals = {}
  /\ plan = Some(PlanA)
  /\ Len(completedExercises) = 2

\* C19 as stated: a failing save for any persisted key is swallowed: no
\* exception of a save goes uncaught.
C19_AsStated ==
  \A u \in uncaught : u.during # "save"

\* handleGenerate has just failed; CallState is the state it was called in
GenerateFailed == last.op = "generateRejected"
CallState == Val(last.pre.genPending).before

\* C20 as stated: when generatePlan fails, the profile, the plan, the
\* completion sets and the logs are as they were before the call, an error
\* message is set, loading is false again and no call is in flight.
C20_AsStated ==
  GenerateFailed =>
    /\ profile = CallState.profile
    /\ plan = CallState.plan
    /\ completedDays = CallState.completedDays
    /\ completedExercises = CallState.completedExercises
    /\ workoutLogs = CallState.workoutLogs
    /\ progressHistory = CallState.progressHistory
    /\ ~IsNull(error)
    /\ ~loading
    /\ IsNull(genPending)

Committed == last.op = "commit"
Queued == Len(updateQueue) > 0

\* C21: a day toggle is one transition for every observer. While the handler
\* has only queued its updates, completedDays, completedExercises and the
\* store are what they were; the commit that follows gives exactly what
\* handleToggleDayComplete computes from the state before, so that a day
\* whose membership changed has all of its exercises changed with it, and
\* the persistence effects write both lists of that state.
C21_DayToggleIsOneTransition ==
  /\ (Queued /\ ~Committed) =>
       /\ completedDays = last.pre.completedDays
       /\ completedExercises = last.pre.completedExercises
       /\ storage = last.pre.storage
  /\ Committed =>
       LET d == last.arg
           toggled == HandleToggleDayComplete(
                        last.pre.completedDays, last.pre.completedExercises,
                        last.pre.plan, d)
       IN /\ \/ /\ completedDays = last.pre.completedDays
                /\ completedExercises = last.pre.completedExercises
             \/ /\ completedDays = toggled.completedDays
                /\ completedExercises = toggled.completedExercises
          /\ Includes(completedDays, d) # Includes(last.pre.completedDays, d)
               => \A id \in IdsOfDay(plan, d) :
                    Includes(completedExercises, id)
                      = Includes(completedDays, d)
          /\ uncaught = {} =>
               /\ storage.items[COMPLETED]
                    = Some(JsonStringify(completedDays))
               /\ storage.items[COMPLETED_EXERCISES]
                    = Some(JsonStringify(completedExercises))

\* C21 witness: a day with one of its three exercises complete was
\* confirmed complete, and the commit made the day and all three complete
C21_Witness ==
  /\ Committed
  /\ ~Queued
  /\ Includes(completedDays, last.arg)
  /\ ~Includes(last.pre.completedDays, last.arg)
  /\ Cardinality(IdsOfDay(plan, last.arg)) = 3
  /\ Cardinality({id \in IdsOfDay(plan, last.arg) :
                    Includes(last.pre.completedExercises, id)}) = 1
  /\ \A id \in IdsOfDay(plan, last.arg) : Includes(completedExercises, id)

\* handleDrop has just run with an item being dragged; DropFrom is the item,
\* DropTarget the position <<week, day, exercise>> of the row dropped on
Dropped ==
  /\ last.op \in {"dropRejected", "dropSame", "move"}
  /\ ~IsNull(last.pre.draggedItem)
DropFrom == Val(last.pre.draggedItem)
DropTarget ==
  CHOOSE pos \in ExercisePositions(last.pre.plan) :
    ExerciseIdAt(pos) = last.arg
DropOtherDay ==
  DropFrom.weekIdx # DropTarget[1] \/ DropFrom.dayIdx # DropTarget[2]

\* C22: a drop on a row of another week or day than the dragged item's, and
\* a drop on the row of the dragged item itself, leave the plan as it was and
\* clear the dragged item.
C22_RejectedDropKeepsPlan ==
  Dropped =>
    /\ \E pos \in ExercisePositions(last.pre.plan) :
         ExerciseIdAt(pos) = last.arg
    /\ (DropOtherDay \/ DropFrom.exIdx = DropTarget[3]) =>
         /\ plan = last.pre.plan
         /\ IsNull(draggedItem)
         /\ storage = last.pre.storage

\* C22 witness: the first exercise of day 0 was dropped on the second
\* exercise of day 1 of the same week
C22_Witness ==
  /\ Dropped
  /\ DropFrom = [weekIdx |-> 0, dayIdx |-> 0, exIdx |-> 0]
  /\ DropTarget = <<0, 1, 1>>
  /\ plan = last.pre.plan
  /\ IsNull(draggedItem)

\* further cases of C22: a drop in another week, a drop on the same row
C22_OtherWeekReached ==
  Dropped /\ DropFrom.weekIdx # DropTarget[1] /\ IsNull(draggedItem)
C22_SameRowReached ==
  Dropped /\ ~DropOtherDay /\ DropFrom.exIdx = DropTarget[3]
    /\ IsNull(draggedItem)

\* C23 as stated: every timer that is Running is eventually Expired, when
\* live intervals keep firing and the timer is not stopped or restarted.
C23_AsStated == Running ~> Expired

\* what holds of C23: a Running timer with time remaining is eventually
\* Expired
C23_PositiveTimersExpire ==
  (Running /\ Val(timer).remaining > 0) ~> Expired

\* the state C23 fails in: Running with nothing remaining and no interval
C23_StuckReached ==
  Running /\ Val(timer).remaining = 0 /\ tickSources = {}

\* a getExerciseAlternatives call has just settled; SwapCall is the exercise
\* it was made for and what the provider call did
SwapSettledNow == last.op \in {"swapResolved", "swapRejected"}
SwapCall == last.arg[1]

\* C24 as stated: when the provider call of a swap request fails, the user
\* is shown a message, the swap dialog is closed, no target position stays
\* pending, the plan is unchanged and the call is not made again.
C24_AsStated ==
  (SwapSettledNow /\ SwapCall.outcome # "answered") =>
    /\ last.ret = Some("alert")
    /\ ~isSwapping
    /\ IsNull(targetSwapIndex)
    /\ plan = last.pre.plan
    /\ pendingSwaps = last.pre.pendingSwaps (-) SetToBag({SwapCall.requested})

\* the state C24 fails in: the provider call failed, the dialog is still
\* open on its target with no candidates, and no call is in flight
C24_SpinnerReached ==
  /\ SwapSettledNow
  /\ SwapCall.outcome = "providerFailed"
  /\ isSwapping
  /\ ~IsNull(targetSwapIndex)
  /\ swapCandidates = <<>>
  /\ pendingSwaps = EmptyBag

\* C28 as stated: the exercise a confirmed swap puts at the target position
\* is one of the alternatives requested for the exercise that was there.
C28_AsStated ==
  Swapped =>
    Includes(AlternativesFor(At0(ExercisesAt(last.pre.plan, SwapTarget.w,
                                             SwapTarget.d), SwapTarget.e)),
             At0(ExercisesAt(plan, SwapTarget.w, SwapTarget.d), SwapTarget.e))

\* C25 as stated: first and last weight are undefined for an empty ledger;
\* the weight change is undefined (not shown) for a ledger of fewer than two
\* entries and is last.weight - first.weight otherwise.
C25_AsStated ==
  LET n == Len(progressHistory)
  IN /\ n = 0 => /\ IsNull(StartWeight(progressHistory))
                 /\ IsNull(LatestWeight(progressHistory))
     /\ n < 2 => IsNull(WeightChangeStat(progressHistory))
     /\ n >= 2 =>
          /\ ~IsNull(WeightChangeStat(progressHistory))
          /\ Val(WeightChangeStat(progressHistory)).number
               = progressHistory[n].weight - progressHistory[1].weight

\* states C25 fails in: one entry, shown as a change of 0.0; two entries
\* whose first weight is 0, shown as a change of 0 instead of 80
C25_SingleEntryReached ==
  /\ Len(progressHistory) = 1
  /\ WeightChange(progressHistory).text = <<"0", ".", "0">>
C25_ZeroWeightReached ==
  /\ Len(progressHistory) = 2
  /\ progressHistory[1].weight = 0
  /\ progressHistory[2].weight = 80
  /\ WeightChange(progressHistory) = [text |-> <<"0">>, number |-> 0]

\* C26 as stated: every id in completedDays names a day of the plan that has
\* an exercise and whose focus does not denote rest, every id in
\* completedExercises names an exercise of a day of the plan, and the
\* completed-workout count is at most the number of workout days.
C26_AsStated ==
  ~IsNull(plan) =>
    /\ \A i \in 1..Len(completedDays) :
         \E pos \in DayPositions(plan) :
           /\ completedDays[i] = DayKey(pos[1], pos[2])
           /\ Len(ExercisesAt(plan, pos[1], pos[2])) > 0
           /\ ~FocusDenotesRest(Val(plan).weeks[pos[1] + 1][pos[2] + 1].focus)
    /\ \A i \in 1..Len(completedExercises) :
         \E pos \in ExercisePositions(plan) :
           completedExercises[i] = ExerciseIdAt(pos)
    /\ CompletedCount(Val(plan), completedDays) <= TotalWorkouts(Val(plan))

\* C26 without the rest clause: the ids of both sets name days and exercises
\* of the plan, and the completed-workout count is at most the total
C26_IdsAreOfThePlan ==
  ~IsNull(plan) =>
    /\ \A i \in 1..Len(completedDays) : IsPlanDay(plan, completedDays[i])
    /\ \A i \in 1..Len(completedExercises) :
         \E pos \in ExercisePositions(plan) :
           completedExercises[i] = ExerciseIdAt(pos)
    /\ CompletedCount(Val(plan), completedDays) <= TotalWorkouts(Val(plan))

\* the rest-focus day of PlanE is in completedDays
C26_RestDayCompleted ==
  /\ plan = Some(PlanE)
  /\ Includes(completedDays, DayKey(0, 1))
  /\ last.op = "confirmCompletion"

\* the persisted state a restart over the stored items would load
Recovered ==
  LET store == [mode |-> "ok", items |-> storage.items]
  IN [profile |-> Load(store, PROFILE, Null).value,
      plan |-> Load(store, PLAN, Null).value,
      completedDays |-> Load(store, COMPLETED, <<>>).value,
      completedExercises |-> Load(store, COMPLETED_EXERCISES, <<>>).value,
      progressHistory |-> Load(store, PROGRESS, <<>>).value,
      workoutLogs |-> Load(store, WORKOUT_LOGS, <<>>).value]

\* C27: storage mirrors memory. While the application is mounted and no
\* write has failed, loading every persisted key gives the profile, the plan,
\* the completion sets, the ledger and the logs of memory, and the key of a
\* null profile or plan holds nothing.
C27_StorageMirrorsMemory ==
  (mounted /\ uncaught = {}) =>
    /\ Recovered.profile = profile
    /\ Recovered.plan = plan
    /\ Recovered.completedDays = completedDays
    /\ Recovered.completedExercises = completedExercises
    /\ Recovered.progressHistory = progressHistory
    /\ Recovered.workoutLogs = workoutLogs
    /\ IsNull(profile) => IsNull(storage.items[PROFILE])
    /\ IsNull(plan) => IsNull(storage.items[PLAN])

\* C27 witness: a reset removed the stored plan and emptied the stored logs
\* and completion sets, and left the stored profile and ledger
C27_Witness ==
  /\ last.op = "reset"
  /\ mounted /\ uncaught = {}
  /\ ~IsNull(last.pre.storage.items[PLAN])
  /\ IsNull(storage.items[PLAN])
  /\ last.pre.storage.items[WORKOUT_LOGS] # Some(JsonStringify(<<>>))
  /\ storage.items[WORKOUT_LOGS] = Some(JsonStringify(<<>>))
  /\ storage.items[PROFILE] = Some(JsonStringify(profile))
  /\ Len(progressHistory) > 0
  /\ storage.items[PROGRESS] = Some(JsonStringify(progressHistory))

\* a mount over unparsable texts replaced every one of them
C27_MountOverCorruptReached ==
  /\ Mounted /\ uncaught = {}
  /\ \A k \in Range(AppKeys) : last.pre.storage.items[k] = Some(CorruptText)
  /\ IsNull(storage.items[PROFILE]) /\ IsNull(storage.items[PLAN])
  /\ storage.items[COMPLETED] = Some(JsonStringify(<<>>))

\* the workout logs that carry dayId
LogsOfDay(logs, dayId) == {j \in 1..Len(logs) : logs[j].dayId = Some(dayId)}

\* confirmCompletion has just run for a day
Confirmed == last.op = "confirmCompletion" /\ last.arg # <<>>

\* C29: every dayId in completedDays has a workout log that carries it. A
\* day enters completedDays only in a completion confirm for that day, which
\* adds exactly one log, for that day, to the logs there were; and the logs
\* shrink only in a step that leaves both completion sets empty.
C29_CompletedDaysHaveLogs ==
  /\ \A i \in 1..Len(completedDays) :
       LogsOfDay(workoutLogs, completedDays[i]) # {}
  /\ \A i \in 1..Len(completedDays) :
       ~Includes(last.pre.completedDays, completedDays[i])
         => IF Confirmed THEN last.arg = completedDays[i] ELSE FALSE
  /\ Confirmed =>
       /\ Len(workoutLogs) = Len(last.pre.workoutLogs) + 1
       /\ workoutLogs[1].dayId = Some(last.arg)
       /\ SubSeq(workoutLogs, 2, Len(workoutLogs)) = last.pre.workoutLogs
  /\ Len(workoutLogs) < Len(last.pre.workoutLogs) =>
       /\ completedDays = <<>>
       /\ completedExercises = <<>>
       /\ workoutLogs = <<>>

\* C29 witness: a confirm completed a second day; both days have their log
C29_Witness ==
  /\ Confirmed
  /\ Len(completedDays) = 2
  /\ Len(last.pre.completedDays) = 1
  /\ Includes(completedDays, last.arg)
  /\ \A i \in 1..2 : Cardinality(LogsOfDay(workoutLogs, completedDays[i])) = 1

\* C30: a confirmed reset leaves no plan and a successful generation leaves
\* the generated plan, whatever the plan was; both leave completedDays,
\* completedExercises and the workout logs empty in the same step and the
\* progress ledger as it was, and a reset leaves the profile as it was. A
\* declined reset changes nothing.
C30_ResetAndGenerationFrame ==
  /\ last.op = "reset" =>
       /\ IsNull(plan)
       /\ completedDays = <<>> /\ completedExercises = <<>>
       /\ workoutLogs = <<>>
       /\ progressHistory = last.pre.progressHistory
       /\ profile = last.pre.profile
  /\ last.op = "generateResolved" =>
       /\ plan \in {Some(g) : g \in GeneratedPlans}
       /\ completedDays = <<>> /\ completedExercises = <<>>
       /\ workoutLogs = <<>>
       /\ progressHistory = last.pre.progressHistory
  /\ last.op = "resetDeclined" => Snapshot = last.pre

\* C30 witness: a confirmed reset of a plan that had been reordered, with
\* completed days and exercises, logs and a ledger entry
C30_Witness ==
  /\ last.op = "reset"
  /\ last.pre.plan \notin {Some(g) : g \in GeneratedPlans}
  /\ Len(last.pre.completedDays) > 0
  /\ Len(last.pre.completedExercises) > 0
  /\ Len(last.pre.workoutLogs) > 0
  /\ Len(progressHistory) > 0
  /\ ~IsNull(profile)

\* a generation emptied completions and logs a store without a plan had
\* left in memory
C30_GeneratedReached ==
  /\ last.op = "generateResolved"
  /\ Len(last.pre.completedDays) > 0
  /\ Len(last.pre.completedExercises) > 0
  /\ Len(last.pre.workoutLogs) > 0
  /\ Len(progressHistory) > 0

\* a reset was declined on a plan with completions
C30_DeclinedReached ==
  /\ last.op = "resetDeclined"
  /\ Len(completedDays) > 0
====
